---- MODULE Spec2Model ----
(***************************************************************************)
(* Model of the Obsidian "Claude AI Co-Pilot" plugin (latest revision of   *)
(* src/unnamed/part_000, lines 252-1535): the vault agent loop             *)
(* (processVaultAgent), its tool handlers, and the single-note call        *)
(* (processWithAI).                                                        *)
(*                                                                         *)
(* Strings.  A JavaScript string is a sequence of TLA+ strings whose       *)
(* concatenation is the JavaScript string.  Paths and note bodies are      *)
(* sequences of one-character strings, so split/trim/startsWith work on    *)
(* characters; the literal text of a program message is kept as one token  *)
(* (<<"File not found: ">> \o path).                                       *)
(*                                                                         *)
(* The vault (Obsidian's document tree) is a record                        *)
(*   [files : path -> body (TFile nodes), folders : set of paths (TFolder)]*)
(* The Obsidian API calls (vault.read, vault.modify, vault.create,         *)
(* vault.createFolder, fileManager.renameFile, fileManager.trashFile,      *)
(* getMarkdownFiles, prepareSimpleSearch) are not code of the repository;  *)
(* they are modelled at their call sites with file-system semantics.       *)
(***************************************************************************)
EXTENDS Integers, Sequences, FiniteSets, TLC

(***************************************************************************)
(* JavaScript string primitives                                            *)
(***************************************************************************)

\* whitespace removed by String.prototype.trim, within the model's alphabet
IsSpace(c) == c \in {" ", "\n", "\t", "\r"}

\* s.startsWith(p)
startsWith(s, p) == Len(s) >= Len(p) /\ SubSeq(s, 1, Len(p)) = p

\* s.endsWith(p)
endsWith(s, p) == Len(s) >= Len(p) /\ SubSeq(s, Len(s) - Len(p) + 1, Len(s)) = p

\* s.substring(n) for 0 <= n
substring(s, n) == IF n >= Len(s) THEN <<>> ELSE SubSeq(s, n + 1, Len(s))

\* s.substring(a, b): negative arguments count as 0, arguments beyond the end
\* as the length, and the two are swapped when a > b
substring2(s, a, b) ==
    LET clamp(n) == IF n < 0 THEN 0 ELSE IF n > Len(s) THEN Len(s) ELSE n
        lo == IF clamp(a) <= clamp(b) THEN clamp(a) ELSE clamp(b)
        hi == IF clamp(a) <= clamp(b) THEN clamp(b) ELSE clamp(a)
    IN  IF lo >= hi THEN <<>> ELSE SubSeq(s, lo + 1, hi)

\* s.trim()
RECURSIVE trim(_)
trim(s) ==
    IF s = <<>> THEN <<>>
    ELSE IF IsSpace(s[1]) THEN trim(Tail(s))
    ELSE IF IsSpace(s[Len(s)]) THEN trim(SubSeq(s, 1, Len(s) - 1))
    ELSE s

\* s.split(sep) for a one-character separator: always at least one segment
RECURSIVE split(_, _)
split(s, sep) ==
    IF \E i \in 1..Len(s) : s[i] = sep
    THEN LET i == CHOOSE k \in 1..Len(s) :
                      s[k] = sep /\ \A j \in 1..(k - 1) : s[j] # sep
         IN  <<SubSeq(s, 1, i - 1)>> \o split(SubSeq(s, i + 1, Len(s)), sep)
    ELSE <<s>>

\* segs.join(sep)
RECURSIVE join(_, _)
join(segs, sep) ==
    IF segs = <<>> THEN <<>>
    ELSE IF Len(segs) = 1 THEN segs[1]
    ELSE segs[1] \o sep \o join(Tail(segs), sep)

\* arr.splice(i, 1) with a 0-based index i: the array without element i
splice1(arr, i) == SubSeq(arr, 1, i) \o SubSeq(arr, i + 2, Len(arr))

\* the letters toLowerCase changes, and what each becomes
UpperCase ==
    <<"A", "B", "C", "D", "E", "F", "G", "H", "I", "J", "K", "L", "M",
      "N", "O", "P", "Q", "R", "S", "T", "U", "V", "W", "X", "Y", "Z">>
LowerCase ==
    <<"a", "b", "c", "d", "e", "f", "g", "h", "i", "j", "k", "l", "m",
      "n", "o", "p", "q", "r", "s", "t", "u", "v", "w", "x", "y", "z">>

\* c.toLowerCase() on one character: a capital letter becomes its small letter,
\* every other character stays
lowerChar(c) ==
    IF \E i \in 1..Len(UpperCase) : UpperCase[i] = c
    THEN LowerCase[CHOOSE i \in 1..Len(UpperCase) : UpperCase[i] = c]
    ELSE c

\* s.toLowerCase()
toLowerCase(s) == [i \in 1..Len(s) |-> lowerChar(s[i])]

\* s.indexOf(w) >= 0
includes(s, w) ==
    \E i \in 0..(Len(s) - Len(w)) : SubSeq(s, i + 1, i + Len(w)) = w

(***************************************************************************)
(* The vault                                                               *)
(***************************************************************************)

\* everything before the last '/' of a path ("" for a top-level path)
ParentPath(path) ==
    LET parts == split(path, "/")
    IN  join(SubSeq(parts, 1, Len(parts) - 1), <<"/">>)

\* TFile.name: the last segment of the path
FileName(path) == LET parts == split(path, "/") IN parts[Len(parts)]

\* TFile.extension === 'md' (what getMarkdownFiles selects)
IsMarkdown(path) == endsWith(FileName(path), <<".", "m", "d">>)

\* path lies strictly below the folder at `dir`
IsBelow(path, dir) == startsWith(path, dir \o <<"/">>)

\* app.vault.getAbstractFileByPath(path): "TFile", "TFolder" or "null"
getAbstractFileByPath(v, path) ==
    IF path \in DOMAIN v.files THEN "TFile"
    ELSE IF path \in v.folders THEN "TFolder"
    ELSE "null"

\* the folder that must hold a new node at `path` exists (the root always does)
ParentIsFolder(v, path) ==
    ParentPath(path) = <<>> \/ ParentPath(path) \in v.folders

\* app.vault.read(file) / app.vault.cachedRead(file)
vaultRead(v, path) == v.files[path]

\* app.vault.modify(file, data): replaces the whole body
vaultModify(v, path, data) == [v EXCEPT !.files[path] = data]

\* app.vault.create(path, data): fails when the path is taken, when its folder is
\* missing, and when the path ends in '/', so that the file would have no name
vaultCreate(v, path, data) ==
    IF getAbstractFileByPath(v, path) # "null"
    THEN [threw |-> TRUE, message |-> <<"File already exists.">>, vault |-> v]
    ELSE IF FileName(path) = <<>>
    THEN [threw |-> TRUE, message |-> <<"EISDIR: illegal operation on a directory">>,
          vault |-> v]
    ELSE IF ~ParentIsFolder(v, path)
    THEN [threw |-> TRUE, message |-> <<"ENOENT: no such file or directory">>, vault |-> v]
    ELSE [threw |-> FALSE, message |-> <<>>,
          vault |-> [v EXCEPT !.files = (path :> data) @@ v.files]]

\* app.vault.createFolder(path)
vaultCreateFolder(v, path) ==
    IF getAbstractFileByPath(v, path) # "null"
    THEN [threw |-> TRUE, message |-> <<"Folder already exists.">>, vault |-> v]
    ELSE IF ~ParentIsFolder(v, path)
    THEN [threw |-> TRUE, message |-> <<"ENOENT: no such file or directory">>, vault |-> v]
    ELSE [threw |-> FALSE, message |-> <<>>,
          vault |-> [v EXCEPT !.folders = v.folders \cup {path}]]

\* the path a node gets when the node at `old` moves to `new`
Moved(path, old, new) ==
    IF path = old THEN new ELSE new \o substring(path, Len(old))

\* the text of a link to the file at `path`: the path without a closing ".md"
linkText(path) ==
    IF endsWith(path, <<".", "m", "d">>) THEN SubSeq(path, 1, Len(path) - 3) ELSE path

\* the body with every link [[old]] turned into [[new]]
RECURSIVE rewriteLinks(_, _, _)
rewriteLinks(body, old, new) ==
    LET link == <<"[", "[">> \o linkText(old) \o <<"]", "]">>
    IN  IF body = <<>> THEN <<>>
        ELSE IF startsWith(body, link)
        THEN <<"[", "[">> \o linkText(new) \o <<"]", "]">>
             \o rewriteLinks(substring(body, Len(link)), old, new)
        ELSE <<body[1]>> \o rewriteLinks(Tail(body), old, new)

\* app.fileManager.renameFile(file, newPath): moves a file, or a folder with all it
\* holds, and rewrites the links to a moved file in the notes that stay (the
\* host does so unless the user turned the updating of links off)
renameFile(v, old, new) ==
    IF getAbstractFileByPath(v, new) # "null"
    THEN [threw |-> TRUE, message |-> <<"Destination file already exists!">>, vault |-> v]
    ELSE IF ~ParentIsFolder(v, new) \/ new = <<>> \/ IsBelow(new, old)
    THEN [threw |-> TRUE, message |-> <<"ENOENT: no such file or directory">>, vault |-> v]
    ELSE LET hit(p) == p = old \/ IsBelow(p, old)
             keptF == {p \in DOMAIN v.files : ~hit(p)}
             movedF == {p \in DOMAIN v.files : hit(p)}
             newF == keptF \cup {Moved(p, old, new) : p \in movedF}
             src(q) == IF q \in keptF THEN q
                       ELSE CHOOSE p \in movedF : Moved(p, old, new) = q
         IN  [threw |-> FALSE, message |-> <<>>,
              vault |-> [v EXCEPT
                           !.files = [q \in newF |->
                                        IF q \in keptF /\ old \in DOMAIN v.files
                                        THEN rewriteLinks(v.files[q], old, new)
                                        ELSE v.files[src(q)]],
                           !.folders = {p \in v.folders : ~hit(p)}
                                       \cup {Moved(p, old, new) : p \in {q \in v.folders : hit(q)}}]]

\* app.fileManager.trashFile(file): moves a file, or a folder with all it holds,
\* to the trash, where it is kept with its body
trashFile(v, path) ==
    LET hit(p) == p = path \/ IsBelow(p, path)
    IN  [v EXCEPT
           !.files = [q \in {p \in DOMAIN v.files : ~hit(p)} |-> v.files[q]],
           !.folders = {p \in v.folders : ~hit(p)},
           !.trashedFiles = @ \cup {[path |-> p, data |-> v.files[p]] :
                                      p \in {q \in DOMAIN v.files : hit(q)}},
           !.trashedFolders = @ \cup {p \in v.folders : hit(p)}]

(***************************************************************************)
(* Tool handlers.  Each returns                                            *)
(*   [threw, value, vault]: value is the returned string, or the message   *)
(*   of the Error thrown; vault is the vault after the call.               *)
(***************************************************************************)

Returned(value, v) == [threw |-> FALSE, value |-> value, vault |-> v]
Threw(message, v) == [threw |-> TRUE, value |-> message, vault |-> v]

\* mutant of stripDuplicateHeading: the heading is looked for on the first line
\* that is a heading, not on the first non-blank line
stripDuplicateHeading_anyLine(content, filename) ==
    LET baseFilename == IF endsWith(filename, <<".", "m", "d">>)
                        THEN SubSeq(filename, 1, Len(filename) - 3)
                        ELSE filename
        lines == split(content, "\n")
        headings == {i \in 1..Len(lines) : startsWith(trim(lines[i]), <<"#", " ">>)}
    IN  IF headings = {} THEN content
        ELSE LET i == CHOOSE k \in headings : \A j \in headings : k <= j
                 line == trim(lines[i])
             IN  IF trim(substring(line, 2)) = baseFilename
                 THEN join(splice1(lines, i - 1), <<"\n">>)
                 ELSE content

\* stripDuplicateHeading(content, filename)
stripDuplicateHeading(content, filename) ==
    LET baseFilename == IF endsWith(filename, <<".", "m", "d">>)
                        THEN SubSeq(filename, 1, Len(filename) - 3)
                        ELSE filename
        lines == split(content, "\n")
        nonEmpty == {i \in 1..Len(lines) : trim(lines[i]) # <<>>}
    IN  IF nonEmpty = {} THEN content
        ELSE LET i == CHOOSE k \in nonEmpty : \A j \in nonEmpty : k <= j
                 line == trim(lines[i])
             IN  IF startsWith(line, <<"#", " ">>) /\ trim(substring(line, 2)) = baseFilename
                 THEN join(splice1(lines, i - 1), <<"\n">>)
                 ELSE content

\* handleReadFile(path)
handleReadFile(v, path) ==
    IF getAbstractFileByPath(v, path) # "TFile"
    THEN Threw(<<"File not found: ">> \o path, v)
    ELSE Returned(vaultRead(v, path), v)

\* mutant of handleWriteFile: the content is stored as it was given
handleWriteFile_unfiltered(v, path, content) ==
    IF getAbstractFileByPath(v, path) # "TFile"
    THEN Threw(<<"File not found: ">> \o path \o <<". Use create_file to create a new file.">>, v)
    ELSE Returned(<<"Successfully updated ">> \o path, vaultModify(v, path, content))

\* mutant of handleWriteFile: a path that holds nothing is created
handleWriteFile_upsert(v, path, content) ==
    IF getAbstractFileByPath(v, path) = "TFolder"
    THEN Threw(<<"File not found: ">> \o path \o <<". Use create_file to create a new file.">>, v)
    ELSE IF getAbstractFileByPath(v, path) = "null"
    THEN LET made == vaultCreate(v, path, content)
         IN  IF made.threw THEN Threw(made.message, made.vault)
             ELSE Returned(<<"Successfully updated ">> \o path, made.vault)
    ELSE LET cleanedContent == stripDuplicateHeading(content, FileName(path))
         IN  Returned(<<"Successfully updated ">> \o path, vaultModify(v, path, cleanedContent))

\* handleWriteFile(path, content)
handleWriteFile(v, path, content) ==
    IF getAbstractFileByPath(v, path) # "TFile"
    THEN Threw(<<"File not found: ">> \o path \o <<". Use create_file to create a new file.">>, v)
    ELSE LET cleanedContent == stripDuplicateHeading(content, FileName(path))
         IN  Returned(<<"Successfully updated ">> \o path, vaultModify(v, path, cleanedContent))

\* currentPath after n passes of the loop of createFolderRecursive:
\* currentPath = currentPath ? `${currentPath}/${part}` : part, so that the path
\* starts again at a segment that follows an empty running path
RECURSIVE currentPathAt(_, _)
currentPathAt(parts, n) ==
    IF n = 0 THEN <<>>
    ELSE LET before == currentPathAt(parts, n - 1)
         IN  IF before # <<>> THEN before \o <<"/">> \o parts[n] ELSE parts[n]

\* createFolderRecursive(path) from segment n on: [threw, message, vault]
RECURSIVE createFolderFrom(_, _, _)
createFolderFrom(v, parts, n) ==
    IF n > Len(parts) THEN [threw |-> FALSE, message |-> <<>>, vault |-> v]
    ELSE LET currentPath == currentPathAt(parts, n)
         IN  IF getAbstractFileByPath(v, currentPath) # "null"
             THEN createFolderFrom(v, parts, n + 1)
             ELSE LET made == vaultCreateFolder(v, currentPath)
                  IN  IF made.threw THEN made
                      ELSE createFolderFrom(made.vault, parts, n + 1)

createFolderRecursive(v, path) == createFolderFrom(v, split(path, "/"), 1)

\* mutant of handleCreateFile: a file that exists is overwritten
handleCreateFile_overwrite(v, path, content) ==
    IF getAbstractFileByPath(v, path) = "TFile"
    THEN Returned(<<"Successfully created ">> \o path, vaultModify(v, path, content))
    ELSE IF getAbstractFileByPath(v, path) = "TFolder"
    THEN Threw(<<"File already exists: ">> \o path \o <<". Use write_file to update it.">>, v)
    ELSE LET parts == split(path, "/")
             pathParts == SubSeq(parts, 1, Len(parts) - 1)
             folderPath == join(pathParts, <<"/">>)
             folders == IF Len(pathParts) > 0 /\ getAbstractFileByPath(v, folderPath) = "null"
                        THEN createFolderRecursive(v, folderPath)
                        ELSE [threw |-> FALSE, message |-> <<>>, vault |-> v]
         IN  IF folders.threw THEN Threw(folders.message, folders.vault)
             ELSE LET made == vaultCreate(folders.vault, path, content)
                  IN  IF made.threw THEN Threw(made.message, made.vault)
                      ELSE Returned(<<"Successfully created ">> \o path, made.vault)

\* mutant of handleCreateFile: the content goes through stripDuplicateHeading
handleCreateFile_filtered(v, path, content) ==
    IF getAbstractFileByPath(v, path) # "null"
    THEN Threw(<<"File already exists: ">> \o path \o <<". Use write_file to update it.">>, v)
    ELSE LET parts == split(path, "/")
             pathParts == SubSeq(parts, 1, Len(parts) - 1)
             folderPath == join(pathParts, <<"/">>)
             folders == IF Len(pathParts) > 0 /\ getAbstractFileByPath(v, folderPath) = "null"
                        THEN createFolderRecursive(v, folderPath)
                        ELSE [threw |-> FALSE, message |-> <<>>, vault |-> v]
         IN  IF folders.threw THEN Threw(folders.message, folders.vault)
             ELSE LET made == vaultCreate(folders.vault, path,
                                          stripDuplicateHeading(content, FileName(path)))
                  IN  IF made.threw THEN Threw(made.message, made.vault)
                      ELSE Returned(<<"Successfully created ">> \o path, made.vault)

\* handleCreateFile(path, content)
handleCreateFile(v, path, content) ==
    IF getAbstractFileByPath(v, path) # "null"
    THEN Threw(<<"File already exists: ">> \o path \o <<". Use write_file to update it.">>, v)
    ELSE LET parts == split(path, "/")
             pathParts == SubSeq(parts, 1, Len(parts) - 1)
             folderPath == join(pathParts, <<"/">>)
             folders == IF Len(pathParts) > 0 /\ getAbstractFileByPath(v, folderPath) = "null"
                        THEN createFolderRecursive(v, folderPath)
                        ELSE [threw |-> FALSE, message |-> <<>>, vault |-> v]
         IN  IF folders.threw THEN Threw(folders.message, folders.vault)
             ELSE LET made == vaultCreate(folders.vault, path, content)
                  IN  IF made.threw THEN Threw(made.message, made.vault)
                      ELSE Returned(<<"Successfully created ">> \o path, made.vault)

\* createFolderRecursive from segment n up to its next await: the segments that
\* exist are passed over, and the first that does not is created
RECURSIVE createFolderStep(_, _, _)
createFolderStep(v, parts, n) ==
    IF n > Len(parts)
    THEN [done |-> TRUE, threw |-> FALSE, message |-> <<>>, vault |-> v, next |-> n]
    ELSE LET currentPath == currentPathAt(parts, n)
         IN  IF getAbstractFileByPath(v, currentPath) # "null"
             THEN createFolderStep(v, parts, n + 1)
             ELSE LET made == vaultCreateFolder(v, currentPath)
                  IN  [done |-> FALSE, threw |-> made.threw, message |-> made.message,
                       vault |-> made.vault, next |-> n + 1]

\* the folder path of handleCreateFile: the path without its last segment
folderPathOf(path) ==
    LET parts == split(path, "/")
    IN  join(SubSeq(parts, 1, Len(parts) - 1), <<"/">>)

\* the rest of handleCreateFile once the folders are there
createAfterFolders(v, path, content) ==
    LET made == vaultCreate(v, path, content)
    IN  IF made.threw THEN Threw(made.message, made.vault)
        ELSE Returned(<<"Successfully created ">> \o path, made.vault)

\* mutant of handleRenameFile: the file is copied and the old path keeps it
handleRenameFile_copy(v, oldPath, newPath) ==
    IF getAbstractFileByPath(v, oldPath) = "null"
    THEN Threw(<<"File not found: ">> \o oldPath, v)
    ELSE IF getAbstractFileByPath(v, newPath) # "null"
    THEN Threw(<<"Destination already exists: ">> \o newPath, v)
    ELSE LET moved == renameFile(v, oldPath, newPath)
         IN  IF moved.threw THEN Threw(moved.message, moved.vault)
             ELSE Returned(<<"Successfully renamed ">> \o oldPath \o <<" to ">> \o newPath,
                           [moved.vault EXCEPT
                              !.files = moved.vault.files
                                        @@ [p \in DOMAIN v.files |-> v.files[p]],
                              !.folders = moved.vault.folders \cup v.folders])

\* mutant of handleRenameFile: the destination is not looked at before the move
handleRenameFile_noDestinationCheck(v, oldPath, newPath) ==
    IF getAbstractFileByPath(v, oldPath) = "null"
    THEN Threw(<<"File not found: ">> \o oldPath, v)
    ELSE LET moved == renameFile(v, oldPath, newPath)
         IN  IF moved.threw THEN Threw(moved.message, moved.vault)
             ELSE Returned(<<"Successfully renamed ">> \o oldPath \o <<" to ">> \o newPath,
                           moved.vault)

\* handleRenameFile(oldPath, newPath)
handleRenameFile(v, oldPath, newPath) ==
    IF getAbstractFileByPath(v, oldPath) = "null"
    THEN Threw(<<"File not found: ">> \o oldPath, v)
    ELSE IF getAbstractFileByPath(v, newPath) # "null"
    THEN Threw(<<"Destination already exists: ">> \o newPath, v)
    ELSE LET moved == renameFile(v, oldPath, newPath)
         IN  IF moved.threw THEN Threw(moved.message, moved.vault)
             ELSE Returned(<<"Successfully renamed ">> \o oldPath \o <<" to ">> \o newPath,
                           moved.vault)

\* mutant of handleDeleteFile: the file is deleted for good (vault.delete), not
\* moved to the trash
handleDeleteFile_permanent(v, path) ==
    IF getAbstractFileByPath(v, path) = "null"
    THEN Threw(<<"File not found: ">> \o path, v)
    ELSE LET hit(p) == p = path \/ IsBelow(p, path)
         IN  Returned(<<"Successfully deleted ">> \o path,
                      [v EXCEPT
                         !.files = [q \in {p \in DOMAIN v.files : ~hit(p)} |-> v.files[q]],
                         !.folders = {p \in v.folders : ~hit(p)}])

\* handleDeleteFile(path)
handleDeleteFile(v, path) ==
    IF getAbstractFileByPath(v, path) = "null"
    THEN Threw(<<"File not found: ">> \o path, v)
    ELSE Returned(<<"Successfully deleted ">> \o path, trashFile(v, path))

(***************************************************************************)
(* JSON.stringify, per shape of the value serialised                       *)
(***************************************************************************)

\* the characters JSON.stringify escapes, within the model's alphabet
jsonEscape(s) ==
    [i \in 1..Len(s) |-> IF s[i] = "\n" THEN "\\n"
                         ELSE IF s[i] = "\t" THEN "\\t"
                         ELSE IF s[i] = "\r" THEN "\\r"
                         ELSE s[i]]

jsonString(s) == <<"\"">> \o jsonEscape(s) \o <<"\"">>

jsonNumber(n) == <<ToString(n)>>

jsonBoolean(b) == IF b THEN <<"true">> ELSE <<"false">>

\* [e1,e2,...] for already serialised elements
RECURSIVE jsonElements(_)
jsonElements(items) ==
    IF items = <<>> THEN <<>>
    ELSE IF Len(items) = 1 THEN items[1]
    ELSE items[1] \o <<",">> \o jsonElements(Tail(items))

jsonArray(items) == <<"[">> \o jsonElements(items) \o <<"]">>

(***************************************************************************)
(* Read-only exploration handlers                                          *)
(***************************************************************************)

\* every arrangement of a set of paths in a row
RECURSIVE Arrangements(_)
Arrangements(S) ==
    IF S = {} THEN {<<>>}
    ELSE UNION {{<<p>> \o rest : rest \in Arrangements(S \ {p})} : p \in S}

\* The orders in which the host may enumerate the files of the vault:
\* vault.getMarkdownFiles gives no ordering guarantee, so every arrangement of
\* the files is one.
HostOrders(v) == Arrangements(DOMAIN v.files)

\* app.vault.getMarkdownFiles() when the host enumerates its files in hostOrder
getMarkdownFiles(v, hostOrder) ==
    SelectSeq(hostOrder, LAMBDA p : p \in DOMAIN v.files /\ IsMarkdown(p))

\* the words of a prepareSimpleSearch query: lower-cased, split on spaces, empty
\* words dropped
RECURSIVE dropEmpty(_)
dropEmpty(words) ==
    IF words = <<>> THEN <<>>
    ELSE IF words[1] = <<>> THEN dropEmpty(Tail(words))
    ELSE <<words[1]>> \o dropEmpty(Tail(words))

searchWords(query) == dropEmpty(split(toLowerCase(query), " "))

\* prepareSimpleSearch(query)(text) is not null: every word of the query occurs
\* in the text (compared in lower case); a query without words matches nothing
prepareSimpleSearch(query, text) ==
    /\ searchWords(query) # <<>>
    /\ \A i \in 1..Len(searchWords(query)) : includes(toLowerCase(text), searchWords(query)[i])

\* files.filter(f => f.path.startsWith(normalizedFolder)) when a folder is given
filterByFolder(files, folder) ==
    IF folder = <<>> THEN files
    ELSE LET normalizedFolder == IF endsWith(folder, <<"/">>) THEN folder ELSE folder \o <<"/">>
         IN  SelectSeq(files, LAMBDA p : startsWith(p, normalizedFolder))

\* file.stat.ctime and file.stat.mtime: numbers of the host's clock, which the
\* model keeps as the tokens they are serialised to
statCtime(path) == <<"<stat.ctime>">>
statMtime(path) == <<"<stat.mtime>">>

\* the value handleListFiles serialises: [files, count]
listFiles(v, hostOrder, folder, pattern, includeMetadata) ==
    LET inFolder == filterByFolder(getMarkdownFiles(v, hostOrder), folder)
        files == IF pattern = <<>> THEN inFolder
                 ELSE SelectSeq(inFolder,
                        LAMBDA p : prepareSimpleSearch(toLowerCase(pattern), toLowerCase(p)))
        results == [i \in 1..Len(files) |->
                      IF includeMetadata
                      THEN [path |-> files[i], name |-> FileName(files[i]),
                            size |-> Len(v.files[files[i]]),
                            created |-> statCtime(files[i]),
                            modified |-> statMtime(files[i])]
                      ELSE [path |-> files[i], name |-> FileName(files[i])]]
    IN  [files |-> results, count |-> Len(results)]

\* JSON.stringify of one entry of a listing
stringifyListEntry(e) ==
    <<"{\"path\":">> \o jsonString(e.path) \o <<",\"name\":">> \o jsonString(e.name)
    \o (IF "size" \in DOMAIN e
        THEN <<",\"size\":">> \o jsonNumber(e.size)
             \o <<",\"created\":">> \o e.created \o <<",\"modified\":">> \o e.modified
        ELSE <<>>)
    \o <<"}">>

\* handleListFiles(folder, pattern, includeMetadata)
handleListFiles(v, hostOrder, folder, pattern, includeMetadata) ==
    LET r == listFiles(v, hostOrder, folder, pattern, includeMetadata)
    IN  Returned(<<"{\"files\":">>
                 \o jsonArray([i \in 1..Len(r.files) |-> stringifyListEntry(r.files[i])])
                 \o <<",\"count\":">> \o jsonNumber(r.count) \o <<"}">>, v)

\* the line excerpts of one matching file: at most 5, each cut to 200 characters
RECURSIVE matchingLines(_, _, _, _, _)
matchingLines(lines, i, searchQuery, caseSensitive, matches) ==
    IF i > Len(lines) \/ Len(matches) >= 5 THEN matches
    ELSE LET lineContent == IF caseSensitive THEN lines[i] ELSE toLowerCase(lines[i])
         IN  IF prepareSimpleSearch(searchQuery, lineContent)
             THEN matchingLines(lines, i + 1, searchQuery, caseSensitive,
                                Append(matches, [line |-> i,
                                                 content |-> substring2(lines[i], 0, 200)]))
             ELSE matchingLines(lines, i + 1, searchQuery, caseSensitive, matches)

\* one pass of the loop of handleSearchFiles once cachedRead has given the
\* content of the file: the results with the entry of the file when it matches
scanOne(path, content, searchQuery, caseSensitive, results) ==
    LET searchContent == IF caseSensitive THEN content ELSE toLowerCase(content)
    IN  IF prepareSimpleSearch(searchQuery, searchContent)
        THEN Append(results,
                    [path |-> path,
                     matches |-> matchingLines(split(content, "\n"), 1,
                                               searchQuery, caseSensitive, <<>>)])
        ELSE results

\* the scan of handleSearchFiles over files[k..] on a vault that stays as it
\* is: [results, filesSearched]
RECURSIVE scanFiles(_, _, _, _, _, _, _, _)
scanFiles(v, files, k, searchQuery, caseSensitive, maxResults, results, filesSearched) ==
    IF k > Len(files) \/ Len(results) >= maxResults
    THEN [results |-> results, filesSearched |-> filesSearched]
    ELSE scanFiles(v, files, k + 1, searchQuery, caseSensitive, maxResults,
                   scanOne(files[k], vaultRead(v, files[k]), searchQuery, caseSensitive,
                           results),
                   filesSearched + 1)

\* mutant of searchFiles: truncated is set only when more than maxResults matched
searchFiles_truncatedWhenMore(results, filesSearched, maxResults) ==
    [results |-> results,
     total_files_searched |-> filesSearched,
     files_with_matches |-> Len(results),
     truncated |-> Len(results) > maxResults]

\* the value handleSearchFiles serialises when its loop is through
searchFiles(results, filesSearched, maxResults) ==
    [results |-> results,
     total_files_searched |-> filesSearched,
     files_with_matches |-> Len(results),
     truncated |-> Len(results) >= maxResults]

stringifyMatch(m) ==
    <<"{\"line\":">> \o jsonNumber(m.line) \o <<",\"content\":">> \o jsonString(m.content)
    \o <<"}">>

stringifySearchResult(r) ==
    <<"{\"path\":">> \o jsonString(r.path) \o <<",\"matches\":">>
    \o jsonArray([i \in 1..Len(r.matches) |-> stringifyMatch(r.matches[i])]) \o <<"}">>

\* the return of handleSearchFiles: JSON.stringify of the value
searchReturn(results, filesSearched, maxResults, v) ==
    LET r == searchFiles(results, filesSearched, maxResults)
    IN  Returned(<<"{\"results\":">>
                 \o jsonArray([i \in 1..Len(r.results) |-> stringifySearchResult(r.results[i])])
                 \o <<",\"total_files_searched\":">> \o jsonNumber(r.total_files_searched)
                 \o <<",\"files_with_matches\":">> \o jsonNumber(r.files_with_matches)
                 \o <<",\"truncated\":">> \o jsonBoolean(r.truncated) \o <<"}">>, v)

\* handleSearchFiles(query, folder, caseSensitive, maxResults) on a vault that
\* stays as it is while the files are read
handleSearchFiles(v, hostOrder, query, folder, caseSensitive, maxResults) ==
    LET searchQuery == IF caseSensitive THEN query ELSE toLowerCase(query)
        files == filterByFolder(getMarkdownFiles(v, hostOrder), folder)
        scan == scanFiles(v, files, 1, searchQuery, caseSensitive, maxResults, <<>>, 0)
    IN  searchReturn(scan.results, scan.filesSearched, maxResults, v)

\* the targets of the links [[target]] of a body, in the order of the body
RECURSIVE linksOf(_)
linksOf(body) ==
    IF Len(body) < 4 THEN <<>>
    ELSE IF body[1] = "[" /\ body[2] = "["
    THEN LET closing == {k \in 3..(Len(body) - 1) : body[k] = "]" /\ body[k + 1] = "]"}
         IN  IF closing = {} THEN <<>>
             ELSE LET k == CHOOSE c \in closing : \A d \in closing : c <= d
                  IN  <<SubSeq(body, 3, k - 1)>> \o linksOf(SubSeq(body, k + 2, Len(body)))
    ELSE linksOf(Tail(body))

\* app.metadataCache.getCache(path): what the host has parsed out of the body.
\* The bodies of the model hold no front matter and no tag, so the cache has
\* neither field; it has `links` when the body holds a link.
getCache(v, path) ==
    IF linksOf(vaultRead(v, path)) = <<>> THEN [sections |-> <<>>]
    ELSE [links |-> [i \in 1..Len(linksOf(vaultRead(v, path))) |->
                       [link |-> linksOf(vaultRead(v, path))[i]]]]

\* handleGetFileMetadata(path, includeFrontmatter, includeLinks, includeTags)
handleGetFileMetadata(v, path, includeFrontmatter, includeLinks, includeTags) ==
    IF getAbstractFileByPath(v, path) # "TFile"
    THEN Threw(<<"File not found: ">> \o path, v)
    ELSE LET name == FileName(path)
             dot == {i \in 1..Len(name) : name[i] = "."}
             last == IF dot = {} THEN Len(name) + 1
                     ELSE CHOOSE i \in dot : \A j \in dot : j <= i
             metadata == getCache(v, path)
         IN  Returned(<<"{\"path\":">> \o jsonString(path)
                      \o <<",\"name\":">> \o jsonString(name)
                      \o <<",\"basename\":">> \o jsonString(SubSeq(name, 1, last - 1))
                      \o <<",\"extension\":">> \o jsonString(substring(name, last))
                      \o <<",\"size\":">> \o jsonNumber(Len(vaultRead(v, path)))
                      \o <<",\"created\":">> \o statCtime(path)
                      \o <<",\"modified\":">> \o statMtime(path)
                      \o (IF includeFrontmatter /\ "frontmatter" \in DOMAIN metadata
                          THEN <<",\"frontmatter\":">> \o metadata.frontmatter ELSE <<>>)
                      \o (IF includeLinks /\ "links" \in DOMAIN metadata
                          THEN <<",\"links\":">>
                               \o jsonArray([i \in 1..Len(metadata.links) |->
                                               jsonString(metadata.links[i].link)])
                          ELSE <<>>)
                      \o (IF includeTags /\ "tags" \in DOMAIN metadata
                          THEN <<",\"tags\":">>
                               \o jsonArray([i \in 1..Len(metadata.tags) |->
                                               jsonString(metadata.tags[i].tag)])
                          ELSE <<>>)
                      \o <<"}">>, v)

(***************************************************************************)
(* processVaultAgent: tool registry, dispatch switch, tool results         *)
(***************************************************************************)

\* mutant of maxIterations: the cap is off by one
maxIterations_offByOne == 50 + 1

\* const maxIterations = 50; // Safety limit
maxIterations == 50

\* mutant of apiKeyMissing: the credential is never checked
apiKeyMissing_never(s) == FALSE

\* !this.settings.anthropicApiKey
apiKeyMissing(s) == s.anthropicApiKey = <<>>

\* the names of the tools array built at the start of a run: delete_file is
\* included only when settings.enableDeleteFiles is set
toolRegistry(enableDeleteFiles) ==
    <<"read_file", "write_file", "create_file", "rename_file">>
    \o (IF enableDeleteFiles THEN <<"delete_file">> ELSE <<>>)
    \o <<"list_files", "search_files", "get_file_metadata", "web_fetch", "web_search">>

\* toolInput.f for an optional string field: undefined and '' are both falsy
optString(input, f) == IF f \in DOMAIN input THEN input[f] ELSE <<>>

\* toolInput.f || false
optFlag(input, f) == IF f \in DOMAIN input THEN input[f] ELSE FALSE

\* toolInput.max_results || 50
optMaxResults(input) ==
    IF "max_results" \in DOMAIN input /\ input.max_results # 0 THEN input.max_results ELSE 50

\* the orders the host may enumerate its files in during the handler call of a
\* tool use: only list_files and search_files enumerate the files, so that for
\* every other tool one order stands for all
OrdersFor(v, toolUse) ==
    IF toolUse.name \in {"list_files", "search_files"} THEN HostOrders(v)
    ELSE {CHOOSE hostOrder \in HostOrders(v) : TRUE}

\* the handler call of the switch case chosen by toolUse.name (the default case
\* calls no handler), with the host enumerating its files in hostOrder
callHandler(v, hostOrder, toolUse) ==
    LET toolName == toolUse.name
        toolInput == toolUse.input
    IN  CASE toolName = "read_file" -> handleReadFile(v, toolInput.path)
          [] toolName = "write_file" -> handleWriteFile(v, toolInput.path, toolInput.content)
          [] toolName = "create_file" ->
                handleCreateFile(v, toolInput.path, optString(toolInput, "content"))
          [] toolName = "rename_file" ->
                handleRenameFile(v, toolInput.old_path, toolInput.new_path)
          [] toolName = "delete_file" -> handleDeleteFile(v, toolInput.path)
          [] toolName = "list_files" ->
                handleListFiles(v, hostOrder, optString(toolInput, "folder"),
                                optString(toolInput, "pattern"),
                                optFlag(toolInput, "include_metadata"))
          [] toolName = "search_files" ->
                handleSearchFiles(v, hostOrder, toolInput.query,
                                  optString(toolInput, "folder"),
                                  optFlag(toolInput, "case_sensitive"),
                                  optMaxResults(toolInput))
          [] toolName = "get_file_metadata" ->
                handleGetFileMetadata(v, toolInput.path,
                                      IF "include_frontmatter" \in DOMAIN toolInput
                                      THEN toolInput.include_frontmatter ELSE TRUE,
                                      optFlag(toolInput, "include_links"),
                                      optFlag(toolInput, "include_tags"))
          [] OTHER ->
                Returned(<<"{\"error\":">>
                         \o jsonString(<<"Unknown tool: ">> \o <<toolName>>) \o <<"}">>, v)

(***************************************************************************)
(* A handler call from await to await.  The checks of a handler and the    *)
(* host call that follows them run in one task; the host call takes effect *)
(* on the vault where it is made, and the handler goes on, in a later      *)
(* task, when the host call has resolved or rejected.  A call that throws  *)
(* before any host call, and a handler that makes none, are through in the *)
(* task they began in.                                                     *)
(***************************************************************************)

\* the handler call is through: what it returned or threw
Settled(outcome) == [vault |-> outcome.vault, outcome |-> outcome, pending |-> <<>>]

\* the handler call awaits a host call it made, which left the vault as v
Suspended(v, call) == [vault |-> v, outcome |-> Returned(<<>>, v), pending |-> <<call>>]

\* a suspended handler call: the tool use, the vault before the call, and, when
\* the host call awaited is the last thing the handler does, what the handler
\* returns or throws once it is back (else settled is empty)
HostCall(toolUse, before, settled) ==
    [toolUse |-> toolUse, before |-> before, settled |-> settled, folderAt |-> 0,
     files |-> <<>>, readAt |-> 0, content |-> <<>>, results |-> <<>>]

\* handleCreateFile at createFolderRecursive, segment n, up to the next await:
\* a createFolder call, or, when the folders are through, the vault.create call
createContinue(toolUse, before, v, n) ==
    LET path == toolUse.input.path
        step == createFolderStep(v, split(folderPathOf(path), "/"), n)
        made == createAfterFolders(v, path, optString(toolUse.input, "content"))
    IN  IF step.done
        THEN Suspended(made.vault, HostCall(toolUse, before, <<made>>))
        ELSE Suspended(step.vault,
                       [HostCall(toolUse, before,
                                 IF step.threw THEN <<Threw(step.message, step.vault)>>
                                 ELSE <<>>)
                        EXCEPT !.folderAt = step.next])

\* handleSearchFiles at the head of its loop, file k, up to the next await: the
\* loop is through and the handler returns, or cachedRead(files[k]) is called
searchContinue(toolUse, before, v, files, k, results) ==
    IF k > Len(files) \/ Len(results) >= optMaxResults(toolUse.input)
    THEN [vault |-> v, pending |-> <<>>,
          outcome |-> searchReturn(results, k - 1, optMaxResults(toolUse.input), v)]
    ELSE Suspended(v, [HostCall(toolUse, before, <<>>)
                       EXCEPT !.files = files, !.readAt = k,
                              !.content = vaultRead(v, files[k]), !.results = results])

\* a handler call up to its first await of a host call or, when it comes to
\* none, to its end.  `whole` is what the handler comes to when it makes at most
\* one host call, `files` what getMarkdownFiles gives handleSearchFiles
beginHandler(v, toolUse, whole, files) ==
    LET toolName == toolUse.name
        toolInput == toolUse.input
        host == Suspended(whole.vault, HostCall(toolUse, v, <<whole>>))
    IN  CASE toolName \in {"read_file", "write_file"} ->
                IF getAbstractFileByPath(v, toolInput.path) = "TFile"
                THEN host ELSE Settled(whole)
          [] toolName = "create_file" ->
                IF getAbstractFileByPath(v, toolInput.path) # "null" THEN Settled(whole)
                ELSE IF /\ Len(split(toolInput.path, "/")) > 1
                        /\ getAbstractFileByPath(v, folderPathOf(toolInput.path)) = "null"
                THEN createContinue(toolUse, v, v, 1)
                ELSE host
          [] toolName = "rename_file" ->
                IF /\ getAbstractFileByPath(v, toolInput.old_path) # "null"
                   /\ getAbstractFileByPath(v, toolInput.new_path) = "null"
                THEN host ELSE Settled(whole)
          [] toolName = "delete_file" ->
                IF getAbstractFileByPath(v, toolInput.path) # "null"
                THEN host ELSE Settled(whole)
          [] toolName = "search_files" ->
                searchContinue(toolUse, v, v,
                               filterByFolder(files, optString(toolInput, "folder")),
                               1, <<>>)
          [] OTHER -> Settled(whole)

\* the handler call of a pass of the switch, with the host enumerating its
\* files in hostOrder, up to its first await of a host call or to its end
beginCall(v, hostOrder, toolUse) ==
    beginHandler(v, toolUse, callHandler(v, hostOrder, toolUse),
                 getMarkdownFiles(v, hostOrder))

\* the host call a handler call awaits is back: the handler goes on to its next
\* await or to its end
resumeCall(v, call) ==
    LET toolUse == call.toolUse
        toolInput == toolUse.input
        caseSensitive == optFlag(toolInput, "case_sensitive")
    IN  IF call.settled # <<>>
        THEN [vault |-> v, outcome |-> call.settled[1], pending |-> <<>>]
        ELSE IF toolUse.name = "create_file"
        THEN createContinue(toolUse, call.before, v, call.folderAt)
        ELSE searchContinue(toolUse, call.before, v, call.files, call.readAt + 1,
                            scanOne(call.files[call.readAt], call.content,
                                    IF caseSensitive THEN toolInput.query
                                    ELSE toLowerCase(toolInput.query),
                                    caseSensitive, call.results))

\* the operations.push of a switch case, which runs after its handler returned
\* (a handler that throws leaves the case before the push)
pushedOperations(toolUse, threw) ==
    LET toolName == toolUse.name
        toolInput == toolUse.input
    IN  IF threw THEN <<>>
        ELSE CASE toolName = "read_file" -> <<[type |-> "read", path |-> toolInput.path]>>
               [] toolName = "write_file" -> <<[type |-> "write", path |-> toolInput.path]>>
               [] toolName = "create_file" -> <<[type |-> "create", path |-> toolInput.path]>>
               [] toolName = "rename_file" ->
                     <<[type |-> "rename", path |-> toolInput.old_path,
                        newPath |-> toolInput.new_path]>>
               [] toolName = "delete_file" -> <<[type |-> "delete", path |-> toolInput.path]>>
               [] OTHER -> <<>>

\* mutant of toolResultFor: the catch block does not mark its result
toolResultFor_unmarked(toolUse, outcome) ==
    IF outcome.threw
    THEN [type |-> "tool_result", tool_use_id |-> toolUse.id,
          content |-> <<"Error: ">> \o outcome.value]
    ELSE [type |-> "tool_result", tool_use_id |-> toolUse.id, content |-> outcome.value]

\* mutant of toolResultFor: every result is marked as an error
toolResultFor_allMarked(toolUse, outcome) ==
    IF outcome.threw
    THEN [type |-> "tool_result", tool_use_id |-> toolUse.id,
          content |-> <<"Error: ">> \o outcome.value, is_error |-> TRUE]
    ELSE [type |-> "tool_result", tool_use_id |-> toolUse.id, content |-> outcome.value,
          is_error |-> TRUE]

\* mutant of toolResultFor: the catch block loses the identifier of the tool use
toolResultFor_lostId(toolUse, outcome) ==
    IF outcome.threw
    THEN [type |-> "tool_result", tool_use_id |-> <<"undefined">>,
          content |-> <<"Error: ">> \o outcome.value, is_error |-> TRUE]
    ELSE [type |-> "tool_result", tool_use_id |-> toolUse.id, content |-> outcome.value]

\* the tool_result block pushed for one tool use: the returned string (or the
\* JSON of the default case's object), or the catch block's error result
toolResultFor(toolUse, outcome) ==
    IF outcome.threw
    THEN [type |-> "tool_result", tool_use_id |-> toolUse.id,
          content |-> <<"Error: ">> \o outcome.value, is_error |-> TRUE]
    ELSE [type |-> "tool_result", tool_use_id |-> toolUse.id, content |-> outcome.value]

\* message.content.filter(block => block.type === 'tool_use')
toolUsesOf(content) == SelectSeq(content, LAMBDA block : block.type = "tool_use")

\* mutant of toolUseAt: the tool uses are gone through from the last to the first
toolUseAt_reversed(uses, k) == uses[Len(uses) + 1 - k]

\* for (const toolUse of toolUses): the tool use of pass k
toolUseAt(uses, k) == uses[k]

\* mutant of assistantTurn: only the tool_use blocks of the reply are kept
assistantTurn_toolUsesOnly(reply) ==
    [role |-> "assistant", content |-> toolUsesOf(reply.content)]

\* messages.push({ role: 'assistant', content: message.content })
assistantTurn(reply) == [role |-> "assistant", content |-> reply.content]

\* mutant of agentIsDone: the stop reason is not looked at
agentIsDone_noStopReason(reply) == toolUsesOf(reply.content) = <<>>

\* toolUses.length === 0 || message.stop_reason === 'end_turn'
agentIsDone(reply) == toolUsesOf(reply.content) = <<>> \/ reply.stop_reason = "end_turn"

\* mutant of wrapAgentError: the caught Error is rethrown as it is
wrapAgentError_rethrow(message) == message

\* the Error the outer catch block throws in place of the one it caught
wrapAgentError(message) == <<"Failed to process vault agent: ">> \o message

\* the Error thrown when settings.anthropicApiKey is empty
ApiKeyError ==
    <<"Anthropic API key not configured. Please add your API key in the plugin settings.">>

\* the Notice raised after the loop when iterationCount >= maxIterations
MaxIterationsNotice ==
    <<"Agent reached maximum iterations. Some operations may not have completed.">>

(***************************************************************************)
(* processWithAI: the text of the response                                 *)
(***************************************************************************)

\* message.content.filter(block => block.type === 'text')
textBlocksOf(content) == SelectSeq(content, LAMBDA block : block.type = "text")

\* mutant of joinTexts: the texts are joined with a line break
RECURSIVE joinTexts_newline(_)
joinTexts_newline(blocks) ==
    IF blocks = <<>> THEN <<>>
    ELSE IF Len(blocks) = 1 THEN blocks[1].text
    ELSE blocks[1].text \o <<"\n">> \o joinTexts_newline(Tail(blocks))

\* textBlocks.map(block => block.text).join('')
RECURSIVE joinTexts(_)
joinTexts(blocks) ==
    IF blocks = <<>> THEN <<>> ELSE blocks[1].text \o joinTexts(Tail(blocks))

\* the Error the catch block of processWithAI throws in place of the one it caught
wrapSingleError(message) == <<"Failed to process with AI: ">> \o message

\* mutant of singleResult: a response without text block gives the empty text
singleResult_emptyAccepted(content) ==
    [threw |-> FALSE, value |-> joinTexts(textBlocksOf(content))]

\* what processWithAI makes of the response: the joined texts are returned, or
\* the response holds no text block and the Error of the catch block is thrown
singleResult(content) ==
    IF textBlocksOf(content) = <<>>
    THEN [threw |-> TRUE, value |-> wrapSingleError(<<"No text content in AI response">>)]
    ELSE [threw |-> FALSE, value |-> joinTexts(textBlocksOf(content))]

(***************************************************************************)
(* SingleNotePromptModal.handleSubmit: what is done with the response      *)
(***************************************************************************)

\* '[ERROR:'
ErrorMarker == <<"[", "E", "R", "R", "O", "R", ":">>

\* mutant of isErrorResponse: the response is not looked at
isErrorResponse_never(modifiedContent) == FALSE

\* modifiedContent.startsWith('[ERROR:')
isErrorResponse(modifiedContent) == startsWith(modifiedContent, ErrorMarker)

\* modifiedContent.substring(7, modifiedContent.length - 1).trim()
errorMessageOf(modifiedContent) ==
    trim(substring2(modifiedContent, 7, Len(modifiedContent) - 1))

(***************************************************************************)
(* Bounds and inputs                                                       *)
(***************************************************************************)

\* tool_use blocks in one reply of the completion service
MaxBlocks == 2

\* tool uses the service chooses freely in one run
MaxToolUses == 2

pA == <<"a", ".", "m", "d">>
pMissing == <<"m", "i", "s", "s", "i", "n", "g", ".", "m", "d">>
pDB == <<"d", "/", "b", ".", "m", "d">>
pNC == <<"n", "/", "c", ".", "m", "d">>
pD == <<"d">>

\* the vault a run starts on: a.md = "x", d/b.md = "X b", missing.md absent, and
\* nothing in the trash
InitialVault ==
    [files |-> (pA :> <<"x">>) @@ (pDB :> <<"X", " ", "b">>), folders |-> {pD},
     trashedFiles |-> {}, trashedFolders |-> {}]

\* the tool invocations the service may choose from: name and input
ToolCalls ==
    { [name |-> "read_file", input |-> [path |-> pMissing]],
      [name |-> "read_file", input |-> [path |-> pA]],
      [name |-> "write_file", input |-> [path |-> pA, content |-> <<"#", " ", "a", "\n", "x">>]],
      [name |-> "create_file", input |-> [path |-> pMissing, content |-> <<"x">>]],
      [name |-> "create_file", input |-> [path |-> pA, content |-> <<"x">>]],
      [name |-> "create_file", input |-> [path |-> pNC]],
      [name |-> "rename_file", input |-> [old_path |-> pA, new_path |-> pMissing]],
      [name |-> "delete_file", input |-> [path |-> pA]],
      [name |-> "list_files", input |-> [folder |-> pD, include_metadata |-> TRUE]],
      [name |-> "search_files", input |-> [query |-> <<"x">>, max_results |-> 1]],
      [name |-> "get_file_metadata", input |-> [path |-> pA]],
      [name |-> "move_file", input |-> [path |-> pA]] }

\* the invocation of a quiet round: the service reads the same note again
ProbeCall == [name |-> "read_file", input |-> [path |-> pDB]]

\* the rejections of a completion-service call
ServiceErrors == {<<"Connection error.">>, <<"529 Overloaded">>}

TextBlock == [type |-> "text", text |-> <<"o", "k">>]

\* a block the service resolved itself (web_fetch, web_search)
ServerBlock == [type |-> "server_tool_use", name |-> "web_search"]

\* the tool_use blocks of round n for a sequence of invocations
toolUseBlocks(n, calls) ==
    [i \in 1..Len(calls) |->
        [type |-> "tool_use", id |-> <<"toolu_", ToString(n), "_", ToString(i)>>,
         name |-> calls[i].name, input |-> calls[i].input]]

StopReasons == {"end_turn", "tool_use"}

\* the replies the service may give to call n with `left` free tool uses left:
\* no block, a text block, or a text block followed by tool_use blocks
AgentReplies(n, left) ==
    LET most == IF left < MaxBlocks THEN left ELSE MaxBlocks
    IN  { [content |-> <<TextBlock>> \o toolUseBlocks(n, calls), stop_reason |-> stop] :
            calls \in UNION {[1..k -> ToolCalls] : k \in 0..most},
            stop \in StopReasons }
        \cup {[content |-> <<>>, stop_reason |-> "end_turn"]}

\* the reply of a quiet round
ProbeReply(n) ==
    [content |-> <<TextBlock>> \o toolUseBlocks(n, <<ProbeCall>>), stop_reason |-> "tool_use"]

\* the numbers of leading quiet rounds a run may have: none, all rounds but the
\* last one, or all rounds
QuietChoices == {0, maxIterations - 1, maxIterations}

\* the responses the service may give to processWithAI
SingleReplies ==
    UNION {[1..k -> {TextBlock, [type |-> "text", text |-> <<"!">>], ServerBlock,
                     [type |-> "text", text |-> ErrorMarker],
                     [type |-> "text", text |-> <<" ", "n", "o", "]">>]}] :
             k \in 0..MaxBlocks}

(***************************************************************************)
(* State                                                                   *)
(***************************************************************************)

VARIABLES
    settings,        \* this.settings: anthropicApiKey, enableDeleteFiles
    vault,           \* the document tree
    entry,           \* the entry point running: "none", "processVaultAgent", "processWithAI"
    pc,              \* the position of the run
    operations,      \* const operations: AgentOperation[]
    tools,           \* const tools: the registry of the run
    messages,        \* const messages: the conversation
    iterationCount,  \* let iterationCount
    continueLoop,    \* let continueLoop
    message,         \* const message: the reply of the current round
    toolUses,        \* const toolUses
    toolResults,     \* const toolResults
    cursor,          \* the position of the for...of loop over toolUses
    request,         \* what the last anthropic.messages.create call submitted
    notices,         \* the Notices raised
    returned,        \* the value returned to the caller
    thrown,          \* the message of the Error thrown to the caller
    callCount,       \* completion-service calls made
    serviceError,    \* the rejection of the last service call
    quiet,           \* service script: leading quiet rounds
    issued,          \* service script: free tool uses issued
    trace,           \* history: every dispatch, as [name, input, threw]
    editor,          \* this.editor.getValue(): the text of the note in the editor
    modals,          \* the modals opened to show an outcome
    sessions,        \* the runs started from VaultAgentPromptModal, per submission
    pending          \* the handler call suspended at the await of a host call: <<>>,
                     \* or <<the call>> (see HostCall)

vars == <<settings, vault, entry, pc, operations, tools, messages, iterationCount,
          continueLoop, message, toolUses, toolResults, cursor, request, notices,
          returned, thrown, callCount, serviceError, quiet, issued, trace,
          editor, modals, sessions, pending>>

\* the state of the two prompt modals, which a direct call of processVaultAgent,
\* of processWithAI or of a handler leaves alone
modalVars == <<editor, modals, sessions>>

NoMessage == [content |-> <<>>, stop_reason |-> "none"]
NoRequest == [system |-> "none", messages |-> <<>>, tools |-> <<>>]

Init ==
    /\ settings \in [anthropicApiKey : {<<>>, <<"sk-ant">>}, enableDeleteFiles : BOOLEAN]
    /\ vault = InitialVault
    /\ entry = "none"
    /\ pc = "idle"
    /\ operations = <<>>
    /\ tools = <<>>
    /\ messages = <<>>
    /\ iterationCount = 0
    /\ continueLoop = TRUE
    /\ message = NoMessage
    /\ toolUses = <<>>
    /\ toolResults = <<>>
    /\ cursor = 0
    /\ request = NoRequest
    /\ notices = <<>>
    /\ returned = <<>>
    /\ thrown = <<>>
    /\ callCount = 0
    /\ serviceError = <<>>
    /\ quiet \in QuietChoices
    /\ issued = 0
    /\ trace = <<>>
    /\ editor = <<>>
    /\ modals = <<>>
    /\ sessions = <<>>
    /\ pending = <<>>

(***************************************************************************)
(* processVaultAgent(userPrompt, currentNotePath, currentNoteContent)      *)
(***************************************************************************)

\* an argument that was not given (undefined): no string of the model is this
\* token
Undefined == <<"<undefined>">>

\* the first user turn: date and time, the current note when both its path and
\* its content were given, and the request
initialMessage(userPrompt, currentNotePath, currentNoteContent) ==
    <<"Current date and time: ", "<dateTimeString>", " (", "<timeZone>", ")\n\n">>
    \o (IF currentNotePath # Undefined /\ currentNotePath # <<>>
           /\ currentNoteContent # Undefined
        THEN <<"Current note: ">> \o currentNotePath \o <<"\n\nCurrent note content:\n">>
             \o currentNoteContent \o <<"\n\nUser request: ">> \o userPrompt
        ELSE <<"User request: ">> \o userPrompt)

\* the call up to the loop: credential check, tool registry, first user turn
StartAgent ==
    /\ pc = "idle"
    /\ entry' = "processVaultAgent"
    /\ IF apiKeyMissing(settings)
       THEN /\ thrown' = ApiKeyError
            /\ pc' = "threw"
            /\ UNCHANGED <<tools, messages>>
       ELSE /\ tools' = toolRegistry(settings.enableDeleteFiles)
            /\ messages' = <<[role |-> "user",
                              content |-> initialMessage(<<"<userPrompt>">>, pA,
                                                         vaultRead(vault, pA))]>>
            /\ pc' = "loop"
            /\ UNCHANGED thrown
    /\ UNCHANGED <<settings, vault, operations, iterationCount, continueLoop, message,
                   toolUses, toolResults, cursor, request, notices, returned, callCount,
                   serviceError, quiet, issued, trace>>
    /\ UNCHANGED modalVars
    /\ UNCHANGED pending

\* while (continueLoop && iterationCount < maxIterations): the round begins and
\* the conversation is submitted
CallService ==
    /\ pc = "loop"
    /\ continueLoop /\ iterationCount < maxIterations
    /\ iterationCount' = iterationCount + 1
    /\ request' = [system |-> IF settings.enableDeleteFiles THEN "with delete_file"
                              ELSE "without delete_file",
                   messages |-> messages, tools |-> tools]
    /\ callCount' = callCount + 1
    /\ pc' = "awaiting"
    /\ UNCHANGED <<settings, vault, entry, operations, tools, messages, continueLoop,
                   message, toolUses, toolResults, cursor, notices, returned, thrown,
                   serviceError, quiet, issued, trace>>
    /\ UNCHANGED modalVars
    /\ UNCHANGED pending

\* the loop condition fails
LoopEnds ==
    /\ pc = "loop"
    /\ ~(continueLoop /\ iterationCount < maxIterations)
    /\ pc' = "after_loop"
    /\ UNCHANGED <<settings, vault, entry, operations, tools, messages, iterationCount,
                   continueLoop, message, toolUses, toolResults, cursor, request, notices,
                   returned, thrown, callCount, serviceError, quiet, issued, trace>>
    /\ UNCHANGED modalVars
    /\ UNCHANGED pending

\* the service call resolves: the reply is appended, and the run is done or
\* goes on to dispatch the reply's tool uses
ServiceReplies ==
    /\ pc = "awaiting"
    /\ \E reply \in (IF callCount <= quiet THEN {ProbeReply(callCount)}
                     ELSE AgentReplies(callCount, MaxToolUses - issued)) :
          /\ message' = reply
          /\ messages' = Append(messages, assistantTurn(reply))
          /\ toolUses' = toolUsesOf(reply.content)
          /\ issued' = IF callCount <= quiet THEN issued
                       ELSE issued + Len(toolUsesOf(reply.content))
          /\ IF agentIsDone(reply)
             THEN /\ continueLoop' = FALSE
                  /\ pc' = "after_loop"
                  /\ UNCHANGED <<toolResults, cursor>>
             ELSE /\ toolResults' = <<>>
                  /\ cursor' = 1
                  /\ pc' = "dispatch"
                  /\ UNCHANGED continueLoop
    /\ UNCHANGED <<settings, vault, entry, operations, tools, iterationCount, request,
                   notices, returned, thrown, callCount, serviceError, quiet, trace>>
    /\ UNCHANGED modalVars
    /\ UNCHANGED pending

\* the service call rejects: the outer catch block rethrows
ServiceRejects ==
    /\ pc = "awaiting"
    /\ \E error \in ServiceErrors :
          /\ serviceError' = error
          /\ thrown' = wrapAgentError(error)
    /\ pc' = "threw"
    /\ UNCHANGED <<settings, vault, entry, operations, tools, messages, iterationCount,
                   continueLoop, message, toolUses, toolResults, cursor, request, notices,
                   returned, callCount, quiet, issued, trace>>
    /\ UNCHANGED modalVars
    /\ UNCHANGED pending

\* the end of a pass of the for...of loop, or its suspension: a handler call
\* that awaits a host call leaves the pass where it is; one that is through is
\* followed by the push of its case and by the tool result
passGoesOn(call, toolUse) ==
    /\ vault' = call.vault
    /\ pending' = call.pending
    /\ IF call.pending # <<>>
       THEN UNCHANGED <<operations, toolResults, trace, cursor>>
       ELSE /\ operations' = operations \o pushedOperations(toolUse, call.outcome.threw)
            /\ toolResults' = Append(toolResults, toolResultFor(toolUse, call.outcome))
            /\ trace' = Append(trace, [name |-> toolUse.name, input |-> toolUse.input,
                                       threw |-> call.outcome.threw])
            /\ cursor' = cursor + 1

\* a pass of the for...of loop begins: the switch calls the handler, which runs
\* up to its first await of a host call (vault.read, vault.modify,
\* vault.createFolder, vault.create, fileManager.renameFile,
\* fileManager.trashFile, vault.cachedRead); a call that comes to no host call
\* is through, and the pass with it
DispatchTool ==
    /\ pc = "dispatch"
    /\ cursor <= Len(toolUses)
    /\ pending = <<>>
    /\ \E hostOrder \in OrdersFor(vault, toolUseAt(toolUses, cursor)) :
          passGoesOn(beginCall(vault, hostOrder, toolUseAt(toolUses, cursor)),
                     toolUseAt(toolUses, cursor))
    /\ UNCHANGED <<settings, entry, pc, tools, messages, iterationCount, continueLoop,
                   message, toolUses, request, notices, returned, thrown, callCount,
                   serviceError, quiet, issued>>
    /\ UNCHANGED modalVars

\* the host call the handler awaits is back: the handler goes on to its next
\* host call, or it is through and the pass ends with the push and the tool
\* result
DispatchResumes ==
    /\ pc = "dispatch"
    /\ pending # <<>>
    /\ passGoesOn(resumeCall(vault, pending[1]), pending[1].toolUse)
    /\ UNCHANGED <<settings, entry, pc, tools, messages, iterationCount, continueLoop,
                   message, toolUses, request, notices, returned, thrown, callCount,
                   serviceError, quiet, issued>>
    /\ UNCHANGED modalVars

\* the tool results are appended as one user turn
EndRound ==
    /\ pc = "dispatch"
    /\ cursor > Len(toolUses)
    /\ messages' = Append(messages, [role |-> "user", content |-> toolResults])
    /\ pc' = "loop"
    /\ UNCHANGED <<settings, vault, entry, operations, tools, iterationCount, continueLoop,
                   message, toolUses, toolResults, cursor, request, notices, returned,
                   thrown, callCount, serviceError, quiet, issued, trace>>
    /\ UNCHANGED modalVars
    /\ UNCHANGED pending

\* after the loop: the maximum-iterations Notice, and the log is returned
Finish ==
    /\ pc = "after_loop"
    /\ notices' = IF iterationCount >= maxIterations
                  THEN Append(notices, MaxIterationsNotice) ELSE notices
    /\ returned' = operations
    /\ pc' = "returned"
    /\ UNCHANGED <<settings, vault, entry, operations, tools, messages, iterationCount,
                   continueLoop, message, toolUses, toolResults, cursor, request, thrown,
                   callCount, serviceError, quiet, issued, trace>>
    /\ UNCHANGED modalVars
    /\ UNCHANGED pending

(***************************************************************************)
(* processWithAI(noteContent, userPrompt)                                  *)
(***************************************************************************)

\* the conversation processWithAI submits
singleMessage(noteContent, userPrompt) ==
    <<"<context>\n<current_datetime>", "<dateTimeString>", " (", "<timeZone>",
      ")</current_datetime>\n</context>\n\n<note_content>\n">>
    \o noteContent \o <<"\n</note_content>\n\n<user_request>\n">>
    \o userPrompt \o <<"\n</user_request>">>

\* the call up to the request: credential check, then the one service call
StartSingle ==
    /\ pc = "idle"
    /\ entry' = "processWithAI"
    /\ IF apiKeyMissing(settings)
       THEN /\ thrown' = ApiKeyError
            /\ pc' = "threw"
            /\ UNCHANGED <<request, callCount>>
       ELSE /\ request' = [system |-> "SINGLE_NOTE_SYSTEM_PROMPT",
                           messages |-> <<[role |-> "user",
                                           content |-> singleMessage(vaultRead(vault, pA),
                                                                     <<"<userPrompt>">>)]>>,
                           tools |-> <<"web_fetch", "web_search">>]
            /\ callCount' = callCount + 1
            /\ pc' = "single_awaiting"
            /\ UNCHANGED thrown
    /\ UNCHANGED <<settings, vault, operations, tools, messages, iterationCount,
                   continueLoop, message, toolUses, toolResults, cursor, notices, returned,
                   serviceError, quiet, issued, trace>>
    /\ UNCHANGED modalVars
    /\ UNCHANGED pending

\* the response arrives: its text is returned, or it holds no text block
SingleResponds ==
    /\ pc = "single_awaiting"
    /\ \E content \in SingleReplies :
          /\ message' = [content |-> content, stop_reason |-> "end_turn"]
          /\ IF singleResult(content).threw
             THEN /\ thrown' = singleResult(content).value
                  /\ pc' = "threw"
                  /\ UNCHANGED returned
             ELSE /\ returned' = singleResult(content).value
                  /\ pc' = "returned"
                  /\ UNCHANGED thrown
    /\ UNCHANGED <<settings, vault, entry, operations, tools, messages, iterationCount,
                   continueLoop, toolUses, toolResults, cursor, request, notices,
                   callCount, serviceError, quiet, issued, trace>>
    /\ UNCHANGED modalVars
    /\ UNCHANGED pending

\* the service call rejects: the catch block rethrows
SingleRejects ==
    /\ pc = "single_awaiting"
    /\ \E error \in ServiceErrors :
          /\ serviceError' = error
          /\ thrown' = wrapSingleError(error)
    /\ pc' = "threw"
    /\ UNCHANGED <<settings, vault, entry, operations, tools, messages, iterationCount,
                   continueLoop, message, toolUses, toolResults, cursor, request, notices,
                   returned, callCount, quiet, issued, trace>>
    /\ UNCHANGED modalVars
    /\ UNCHANGED pending

Next ==
    \/ StartAgent
    \/ CallService
    \/ LoopEnds
    \/ ServiceReplies
    \/ ServiceRejects
    \/ DispatchTool
    \/ DispatchResumes
    \/ EndRound
    \/ Finish
    \/ StartSingle
    \/ SingleResponds
    \/ SingleRejects

Spec == Init /\ [][Next]_vars

(***************************************************************************)
(* The tool handlers called in sequence on one vault.  Each step is one    *)
(* pass through the dispatch switch (callHandler) for an invocation the    *)
(* service may send; trace keeps, per call, the vault before it and what   *)
(* the handler returned or threw.                                          *)
(***************************************************************************)

\* handler calls made in a row on one vault
MaxCalls == 2

pT == <<"t", ".", "t", "x", "t">>
pDD == <<"d", "d", ".", "m", "d">>
pN == <<"n">>
pAC == <<"a", ".", "m", "d", "/", "c", ".", "m", "d">>

\* the invocations of the handler sequences, per tool
ReadCalls ==
    {[name |-> "read_file", input |-> [path |-> p]] : p \in {pA, pMissing, pD, pNC, pT}}

pNSlash == <<"n", "/">>
pSlashNC == <<"/", "n", "/", "c", ".", "m", "d">>

\* a body that links to a.md
linkToA == <<"[", "[", "a", "]", "]">>

WriteCalls ==
    { [name |-> "write_file", input |-> [path |-> pA, content |-> <<"#", " ", "a", "\n", "x">>]],
      [name |-> "write_file", input |-> [path |-> pA, content |-> <<"z">>]],
      [name |-> "write_file", input |-> [path |-> pDB, content |-> <<"#", " ", "a", "\n", "x">>]],
      [name |-> "write_file", input |-> [path |-> pMissing, content |-> <<"z">>]],
      [name |-> "write_file", input |-> [path |-> pD, content |-> <<"z">>]],
      [name |-> "write_file", input |-> [path |-> pDB, content |-> linkToA]] }

CreateCalls ==
    { [name |-> "create_file", input |-> [path |-> pMissing, content |-> <<"x">>]],
      [name |-> "create_file", input |-> [path |-> pA, content |-> <<"z">>]],
      [name |-> "create_file", input |-> [path |-> pD, content |-> <<"z">>]],
      [name |-> "create_file", input |-> [path |-> pNC, content |-> <<"#", " ", "c", "\n", "x">>]],
      [name |-> "create_file", input |-> [path |-> pNC]],
      [name |-> "create_file", input |-> [path |-> pT, content |-> <<"x">>]],
      [name |-> "create_file", input |-> [path |-> pDD, content |-> <<"x">>]],
      [name |-> "create_file", input |-> [path |-> pAC, content |-> <<"x">>]],
      [name |-> "create_file", input |-> [path |-> pNSlash, content |-> <<"x">>]],
      [name |-> "create_file", input |-> [path |-> pSlashNC, content |-> <<"x">>]] }

RenameCalls ==
    {[name |-> "rename_file", input |-> [old_path |-> o, new_path |-> n]] :
        <<o, n>> \in {<<pA, pMissing>>, <<pA, pDB>>, <<pA, pA>>, <<pA, pD>>, <<pA, pNC>>,
                      <<pMissing, pNC>>, <<pMissing, pA>>, <<pD, pN>>, <<pA, pDD>>}}

DeleteCalls ==
    {[name |-> "delete_file", input |-> [path |-> p]] : p \in {pA, pMissing, pD}}

ListCalls ==
    { [name |-> "list_files", input |-> [include_metadata |-> FALSE]],
      [name |-> "list_files", input |-> [folder |-> pD]],
      [name |-> "list_files", input |-> [folder |-> <<"d", "/">>]],
      [name |-> "list_files", input |-> [folder |-> pD, include_metadata |-> TRUE]] }

SearchCalls ==
    { [name |-> "search_files", input |-> [query |-> <<"x">>, max_results |-> 1]],
      [name |-> "search_files", input |-> [query |-> <<"x">>, max_results |-> 2]],
      [name |-> "search_files", input |-> [query |-> <<"x">>]],
      [name |-> "search_files", input |-> [query |-> <<"x">>, case_sensitive |-> TRUE,
                                           max_results |-> 1]],
      [name |-> "search_files", input |-> [query |-> <<"b">>, folder |-> pD, max_results |-> 2]],
      [name |-> "search_files", input |-> [query |-> <<"a", " ", "x">>]] }

MetadataCalls ==
    {[name |-> "get_file_metadata", input |-> [path |-> p]] : p \in {pA, pMissing}}
    \cup {[name |-> "get_file_metadata", input |-> [path |-> pDB, include_links |-> TRUE]]}

\* the state before any handler is called: no run is under way
InitHandlers ==
    /\ settings = [anthropicApiKey |-> <<"sk-ant">>, enableDeleteFiles |-> TRUE]
    /\ vault = InitialVault
    /\ entry = "none"
    /\ pc = "idle"
    /\ operations = <<>>
    /\ tools = <<>>
    /\ messages = <<>>
    /\ iterationCount = 0
    /\ continueLoop = TRUE
    /\ message = NoMessage
    /\ toolUses = <<>>
    /\ toolResults = <<>>
    /\ cursor = 0
    /\ request = NoRequest
    /\ notices = <<>>
    /\ returned = <<>>
    /\ thrown = <<>>
    /\ callCount = 0
    /\ serviceError = <<>>
    /\ quiet = 0
    /\ issued = 0
    /\ trace = <<>>
    /\ editor = <<>>
    /\ modals = <<>>
    /\ sessions = <<>>
    /\ pending = <<>>

\* the variables of a run of processVaultAgent or processWithAI, which a handler
\* called on its own leaves alone
runVars ==
    <<settings, entry, pc, tools, messages, iterationCount, continueLoop,
      message, toolUses, toolResults, cursor, request, notices, returned, thrown,
      callCount, serviceError, quiet, issued>>

\* the history entry of one handler call: the invocation, the vault before it
\* and what the handler returned or threw
CallRecord(toolUse, v, outcome) ==
    [name |-> toolUse.name, input |-> toolUse.input, threw |-> outcome.threw,
     value |-> outcome.value, before |-> v]

\* a case of the switch called on its own: a handler call that awaits a host
\* call is suspended; one that is through is entered in the history and
\* followed by the push of its case
caseGoesOn(call, toolUse, before) ==
    /\ vault' = call.vault
    /\ pending' = call.pending
    /\ IF call.pending # <<>>
       THEN UNCHANGED <<trace, operations>>
       ELSE /\ trace' = Append(trace, CallRecord(toolUse, before, call.outcome))
            /\ operations' = operations \o pushedOperations(toolUse, call.outcome.threw)

\* case 'read_file', up to the await of vault.read or to the end of the case
ReadFile ==
    /\ Len(trace) < MaxCalls
    /\ pending = <<>>
    /\ \E toolUse \in ReadCalls :
          caseGoesOn(beginHandler(vault, toolUse,
                                  handleReadFile(vault, toolUse.input.path),
                                  <<>>),
                     toolUse, vault)
    /\ UNCHANGED <<runVars, modalVars>>

\* case 'write_file', up to the await of vault.modify or to the end of the case
WriteFile ==
    /\ Len(trace) < MaxCalls
    /\ pending = <<>>
    /\ \E toolUse \in WriteCalls :
          caseGoesOn(beginHandler(vault, toolUse,
                                  handleWriteFile(vault, toolUse.input.path, toolUse.input.content),
                                  <<>>),
                     toolUse, vault)
    /\ UNCHANGED <<runVars, modalVars>>

\* case 'create_file', up to the await of its first host call (vault.createFolder
\* for a missing folder, else vault.create) or to the end of the case
CreateFile ==
    /\ Len(trace) < MaxCalls
    /\ pending = <<>>
    /\ \E toolUse \in CreateCalls :
          caseGoesOn(beginHandler(vault, toolUse,
                                  handleCreateFile(vault, toolUse.input.path,
                                        optString(toolUse.input, "content")),
                                  <<>>),
                     toolUse, vault)
    /\ UNCHANGED <<runVars, modalVars>>

\* case 'rename_file', up to the await of fileManager.renameFile or to the end
\* of the case
RenameFile ==
    /\ Len(trace) < MaxCalls
    /\ pending = <<>>
    /\ \E toolUse \in RenameCalls :
          caseGoesOn(beginHandler(vault, toolUse,
                                  handleRenameFile(vault, toolUse.input.old_path,
                                        toolUse.input.new_path),
                                  <<>>),
                     toolUse, vault)
    /\ UNCHANGED <<runVars, modalVars>>

\* case 'delete_file', up to the await of fileManager.trashFile or to the end of
\* the case
DeleteFile ==
    /\ Len(trace) < MaxCalls
    /\ pending = <<>>
    /\ \E toolUse \in DeleteCalls :
          caseGoesOn(beginHandler(vault, toolUse,
                                  handleDeleteFile(vault, toolUse.input.path),
                                  <<>>),
                     toolUse, vault)
    /\ UNCHANGED <<runVars, modalVars>>

\* case 'list_files': the handler awaits nothing
ListFiles ==
    /\ Len(trace) < MaxCalls
    /\ pending = <<>>
    /\ \E toolUse \in ListCalls, hostOrder \in HostOrders(vault) :
          caseGoesOn(beginHandler(vault, toolUse,
                                  handleListFiles(vault, hostOrder,
                                                  optString(toolUse.input, "folder"),
                                                  optString(toolUse.input, "pattern"),
                                                  optFlag(toolUse.input, "include_metadata")),
                                  <<>>),
                     toolUse, vault)
    /\ UNCHANGED <<runVars, modalVars>>

\* case 'search_files', up to the await of the first vault.cachedRead or, when no
\* file is to be read, to the end of the case
SearchFiles ==
    /\ Len(trace) < MaxCalls
    /\ pending = <<>>
    /\ \E toolUse \in SearchCalls, hostOrder \in HostOrders(vault) :
          caseGoesOn(beginHandler(vault, toolUse, Returned(<<>>, vault),
                                  getMarkdownFiles(vault, hostOrder)),
                     toolUse, vault)
    /\ UNCHANGED <<runVars, modalVars>>

\* case 'get_file_metadata': the handler awaits nothing
GetFileMetadata ==
    /\ Len(trace) < MaxCalls
    /\ pending = <<>>
    /\ \E toolUse \in MetadataCalls :
          caseGoesOn(beginHandler(vault, toolUse,
                                  handleGetFileMetadata(vault, toolUse.input.path,
                                             IF "include_frontmatter" \in DOMAIN toolUse.input
                                             THEN toolUse.input.include_frontmatter
                                             ELSE TRUE,
                                             optFlag(toolUse.input, "include_links"),
                                             optFlag(toolUse.input, "include_tags")),
                                  <<>>),
                     toolUse, vault)
    /\ UNCHANGED <<runVars, modalVars>>

\* the default case of the switch: no handler is called
UnknownTool ==
    /\ Len(trace) < MaxCalls
    /\ pending = <<>>
    /\ \E toolUse \in {[name |-> "move_file", input |-> [path |-> pA]]},
          hostOrder \in OrdersFor(vault, ProbeCall) :
          caseGoesOn(beginCall(vault, hostOrder, toolUse), toolUse, vault)
    /\ UNCHANGED <<runVars, modalVars>>

\* the host call the handler awaits is back: the handler goes on to its next
\* host call, or it is through and the case pushes its record
HandlerResumes ==
    /\ pending # <<>>
    /\ caseGoesOn(resumeCall(vault, pending[1]), pending[1].toolUse, pending[1].before)
    /\ UNCHANGED <<runVars, modalVars>>

NextHandlers ==
    \/ ReadFile
    \/ WriteFile
    \/ CreateFile
    \/ RenameFile
    \/ DeleteFile
    \/ ListFiles
    \/ SearchFiles
    \/ GetFileMetadata
    \/ UnknownTool
    \/ HandlerResumes

SpecHandlers == InitHandlers /\ [][NextHandlers]_vars

(***************************************************************************)
(* stripDuplicateHeading applied to contents of a few lines                *)
(***************************************************************************)

\* lines of a content handed to stripDuplicateHeading
MaxLines == 2

\* the lines the contents are made of
FilterLines ==
    { <<>>,
      <<" ">>,
      <<"x">>,
      <<"#", " ", "a">>,
      <<" ", "#", " ", " ", "a", " ">>,
      <<"#", " ", "A">>,
      <<"#", " ", "b">>,
      <<"#", "a">>,
      <<"#", "#", " ", "a">>,
      <<"#", " ", "a", ".", "t", "x", "t">> }

\* the contents: one to MaxLines lines joined by line breaks
FilterContents ==
    {join(lines, <<"\n">>) : lines \in UNION {[1..k -> FilterLines] : k \in 1..MaxLines}}

\* the file names (TFile.name) the filter is called with
FilterNames == { <<"a", ".", "m", "d">>, <<"a", ".", "t", "x", "t">>, <<"a">> }

\* one call of stripDuplicateHeading
StripHeading ==
    /\ trace = <<>>
    /\ \E content \in FilterContents, filename \in FilterNames :
          trace' = <<[name |-> "stripDuplicateHeading",
                      input |-> [content |-> content, filename |-> filename],
                      value |-> stripDuplicateHeading(content, filename)]>>
    /\ UNCHANGED <<settings, vault, entry, pc, operations, tools, messages, iterationCount,
                   continueLoop, message, toolUses, toolResults, cursor, request, notices,
                   returned, thrown, callCount, serviceError, quiet, issued>>
    /\ UNCHANGED modalVars
    /\ UNCHANGED pending

SpecFilter == InitHandlers /\ [][StripHeading]_vars

(***************************************************************************)
(* Properties                                                              *)
(***************************************************************************)

AgentRun == entry = "processVaultAgent"

\* the run returned because the cap was hit while the service still asked for tools
AbortedMaxIterations == AgentRun /\ pc = "returned" /\ continueLoop

\* the run returned because the service stopped
Done == AgentRun /\ pc = "returned" /\ ~continueLoop

\* the five kinds of invocation the Operation Record log is about
RecordedKinds == {"read_file", "write_file", "create_file", "rename_file", "delete_file"}

\* the Operation Record of one dispatch of a recorded kind
RecordOf(d) ==
    IF d.name = "rename_file"
    THEN [type |-> "rename", path |-> d.input.old_path, newPath |-> d.input.new_path]
    ELSE [type |-> CASE d.name = "read_file" -> "read"
                     [] d.name = "write_file" -> "write"
                     [] d.name = "create_file" -> "create"
                     [] d.name = "delete_file" -> "delete",
          path |-> d.input.path]

\* the records of the dispatches that were of a recorded kind and did not fail,
\* in dispatch order
RECURSIVE RecordsOf(_)
RecordsOf(ds) ==
    IF ds = <<>> THEN <<>>
    ELSE (IF ds[1].name \in RecordedKinds /\ ~ds[1].threw THEN <<RecordOf(ds[1])>> ELSE <<>>)
         \o RecordsOf(Tail(ds))

\* the last n dispatches are the n tool uses of the current reply, in order
LastRoundDispatched ==
    LET n == Len(toolUses)
    IN  /\ Len(trace) >= n
        /\ \A i \in 1..n : /\ trace[Len(trace) - n + i].name = toolUses[i].name
                           /\ trace[Len(trace) - n + i].input = toolUses[i].input

\* C1: the completion service is called at most 50 times in a run, and a run
\* that hits the cap while the service still requests tools ends after 50 calls
\* and returns the log of every round performed, the last one included.
C1_IterationCap ==
    /\ callCount <= 50
    /\ AbortedMaxIterations =>
          /\ callCount = 50
          /\ toolUses # <<>>
          /\ LastRoundDispatched
          /\ returned = operations
          /\ returned = RecordsOf(trace)

\* C1 witness: a run aborted by the cap whose returned log holds the records of
\* the 49 earlier rounds and a record made in the last round
C1_Witness ==
    /\ AbortedMaxIterations
    /\ Len(returned) >= 50
    /\ toolUses[1].name = "create_file"
    /\ ~trace[Len(trace) - Len(toolUses) + 1].threw

\* C2 as stated: every dispatched invocation of a recorded kind adds one record,
\* whether its handler succeeded or failed.
C2_RecordWhateverTheOutcome ==
    Len(operations) = Cardinality({i \in 1..Len(trace) : trace[i].name \in RecordedKinds})

\* C2 witness: the service asked read_file("missing.md"), then
\* create_file("missing.md", "x"), then stopped; the read threw, the run has
\* returned, missing.md holds "x" and the returned log is the create record
\* alone, without a read record
C2_FailedReadUnrecorded ==
    /\ Done
    /\ Len(trace) = 2
    /\ trace[1].name = "read_file" /\ trace[1].input.path = pMissing
    /\ trace[1].threw
    /\ trace[2].name = "create_file"
    /\ trace[2].input = [path |-> pMissing, content |-> <<"x">>]
    /\ ~trace[2].threw
    /\ vault.files[pMissing] = <<"x">>
    /\ returned = <<[type |-> "create", path |-> pMissing]>>

\* the content of the result the default case of the switch gives for a tool name
UnknownToolContent(name) == <<"{\"error\":", "\"", "Unknown tool: ", name, "\"", "}">>

\* C3 as stated: with settings.enableDeleteFiles off, the dispatch of a
\* delete_file invocation gives an unknown-tool result and removes no document.
C3_DeleteDisabled ==
    [][(/\ ~settings.enableDeleteFiles
        /\ pc = "dispatch"
        /\ cursor <= Len(toolUses)
        /\ toolUses[cursor].name = "delete_file"
        /\ Len(toolResults') = cursor)
       => /\ DOMAIN vault'.files = DOMAIN vault.files
          /\ toolResults'[cursor].content = UnknownToolContent("delete_file")]_vars

\* C3 witness: with settings.enableDeleteFiles off a delete_file invocation was
\* dispatched, a.md is gone from the vault and the log holds the delete record
C3_DeleteDispatched ==
    /\ ~settings.enableDeleteFiles
    /\ trace # <<>>
    /\ trace[Len(trace)].name = "delete_file"
    /\ ~trace[Len(trace)].threw
    /\ pA \notin DOMAIN vault.files
    /\ operations = <<[type |-> "delete", path |-> pA]>>

\* C4: a handler that throws does not end the round or the run: its result is
\* the error result of the catch block, nothing is thrown to the caller, the
\* next invocation of the reply is dispatched next (a pass whose handler awaits
\* a host call stays at its invocation, with no result added, until the handler
\* is through), and the round ends with one result per invocation and goes on
\* to the next round.
C4_FailureContained ==
    /\ [](pc = "dispatch" =>
            /\ Len(toolResults) = cursor - 1
            /\ thrown = <<>>
            /\ \A i \in 1..(cursor - 1) :
                  trace[Len(trace) - (cursor - 1) + i].threw =>
                     /\ "is_error" \in DOMAIN toolResults[i]
                     /\ toolResults[i].is_error
                     /\ SubSeq(toolResults[i].content, 1, 1) = <<"Error: ">>
                     /\ Len(toolResults[i].content) > 1)
    /\ [][(pc = "dispatch" /\ cursor <= Len(toolUses)) =>
             /\ pc' = "dispatch"
             /\ \/ /\ cursor' = cursor + 1
                   /\ pending' = <<>>
                   /\ trace'[Len(trace')].name = toolUses[cursor].name
                \/ /\ cursor' = cursor
                   /\ pending' # <<>>
                   /\ pending'[1].toolUse = toolUses[cursor]
                   /\ toolResults' = toolResults]_vars
    /\ [][(pc = "dispatch" /\ cursor > Len(toolUses)) =>
             /\ pc' = "loop"
             /\ continueLoop'
             /\ messages'[Len(messages')].content = toolResults
             /\ Len(toolResults) = Len(toolUses)]_vars
    /\ [](pc = "loop" /\ iterationCount < 50 => ENABLED CallService)

\* C4 witness: the first invocation of a reply threw and the second one has been
\* dispatched after it
C4_Witness ==
    /\ pc = "dispatch"
    /\ cursor = 3
    /\ "is_error" \in DOMAIN toolResults[1]
    /\ "is_error" \notin DOMAIN toolResults[2]

\* the tool names the dispatch switch has a case for
SwitchCases ==
    {"read_file", "write_file", "create_file", "rename_file", "delete_file",
     "list_files", "search_files", "get_file_metadata"}

\* C5 as stated: the result of an invocation whose name the switch does not
\* handle is marked as a failure, like the result of a handler that threw.
C5_UnknownToolMarkedFailure ==
    (pc = "dispatch" /\ cursor > 1 /\ toolUses[cursor - 1].name \notin SwitchCases)
    => /\ "is_error" \in DOMAIN toolResults[cursor - 1]
       /\ toolResults[cursor - 1].is_error

\* C5 amended: an invocation whose name the switch does not handle gets an
\* ordinary, unmarked tool result whose content is the JSON object
\* {"error":"Unknown tool: <name>"}; nothing is thrown and the round goes on.
C5_UnknownToolResult ==
    (pc = "dispatch" /\ cursor > 1 /\ toolUses[cursor - 1].name \notin SwitchCases)
    => /\ Len(toolResults) = cursor - 1
       /\ "is_error" \notin DOMAIN toolResults[cursor - 1]
       /\ toolResults[cursor - 1].content = UnknownToolContent(toolUses[cursor - 1].name)
       /\ toolResults[cursor - 1].tool_use_id = toolUses[cursor - 1].id
       /\ ~trace[Len(trace)].threw
       /\ thrown = <<>>

\* C5 witness: an unknown tool was dispatched first and the next invocation of
\* the reply is about to be dispatched
C5_Witness ==
    /\ pc = "dispatch"
    /\ cursor = 2
    /\ Len(toolUses) = 2
    /\ toolUses[1].name = "move_file"

\* C6: once a reply is appended the run is done, with none of the reply's tool
\* uses dispatched and no further service call, exactly when the reply holds no
\* tool_use block or its stop reason is end_turn; otherwise every tool use of
\* the reply is dispatched before the round ends.
C6_DoneExactlyWhen ==
    /\ [][(pc = "awaiting" /\ pc' # "threw") =>
             LET content == message'.content
                 noToolUse == \A i \in 1..Len(content) : content[i].type # "tool_use"
             IN  /\ messages' = Append(messages, [role |-> "assistant", content |-> content])
                 /\ IF noToolUse \/ message'.stop_reason = "end_turn"
                    THEN pc' = "after_loop" /\ ~continueLoop'
                    ELSE /\ pc' = "dispatch"
                         /\ continueLoop'
                         /\ cursor' = 1
                         /\ Len(toolUses') =
                               Cardinality({i \in 1..Len(content) : content[i].type = "tool_use"})]_vars
    /\ [][(AgentRun /\ ~continueLoop) =>
             /\ callCount' = callCount
             /\ trace' = trace
             /\ vault' = vault
             /\ pc' = "returned"]_vars
    /\ [][(pc = "dispatch" /\ pc' # "dispatch") =>
             /\ Len(toolResults) = Len(toolUses)
             /\ LastRoundDispatched]_vars

\* C6 witness: a reply that holds tool uses and the stop reason end_turn ended
\* the run, and none of its tool uses was dispatched
C6_Witness ==
    /\ Done
    /\ toolUses # <<>>
    /\ message.stop_reason = "end_turn"
    /\ trace = <<>>

\* C7 as stated: the Error thrown to the caller is the rejection of the service
\* call, unmodified.
C7_RejectionUnmodified ==
    (AgentRun /\ pc = "threw" /\ serviceError # <<>>) => thrown = serviceError

\* C7 amended: when a service call rejects, the run fails at once: the service
\* is not called again, no further tool is dispatched, and the caller gets a new
\* Error whose message is "Failed to process vault agent: " followed by the
\* message of the rejection.
C7_RejectionWrapped ==
    /\ []((AgentRun /\ serviceError # <<>>) =>
            /\ pc = "threw"
            /\ thrown = <<"Failed to process vault agent: ">> \o serviceError
            /\ returned = <<>>)
    /\ [][(AgentRun /\ pc = "awaiting" /\ serviceError' # <<>>) =>
             /\ pc' = "threw"
             /\ callCount' = callCount
             /\ trace' = trace
             /\ vault' = vault]_vars
    /\ [][pc = "threw" => (callCount' = callCount /\ trace' = trace)]_vars

\* C7 witness: the service rejected the call of a later round, after a tool of
\* an earlier round had changed the vault
C7_Witness ==
    /\ AgentRun
    /\ pc = "threw"
    /\ serviceError # <<>>
    /\ callCount = 2
    /\ operations # <<>>

\* C8: with an empty anthropicApiKey, processWithAI and processVaultAgent throw
\* the configuration Error before any service call is made and before any
\* document is read or changed.
C8_CredentialFirst ==
    settings.anthropicApiKey = <<>> =>
       /\ callCount = 0
       /\ request = NoRequest
       /\ messages = <<>>
       /\ trace = <<>>
       /\ vault = InitialVault
       /\ entry # "none" =>
             /\ pc = "threw"
             /\ thrown = <<"Anthropic API key not configured. Please add your API key in the plugin settings.">>

\* C8 witness: processVaultAgent was called without a credential
C8_Witness ==
    /\ settings.anthropicApiKey = <<>>
    /\ AgentRun
    /\ pc = "threw"

\* C9: a round that dispatches tools appends exactly one user turn after the
\* assistant turn, holding one tool result per tool use of the reply, in the
\* order of the tool uses, each with the id of its own tool use, whether the
\* dispatch succeeded or failed.
C9_ResultsTurn ==
    /\ \A k \in 2..Len(messages) :
          /\ messages[k].role # messages[k - 1].role
          /\ messages[k].role = "user" =>
                LET content == messages[k - 1].content
                    uses == SelectSeq(content, LAMBDA b : b.type = "tool_use")
                    results == messages[k].content
                IN  /\ Len(results) = Len(uses)
                    /\ Len(uses) > 0
                    /\ \A i \in 1..Len(uses) :
                          /\ results[i].type = "tool_result"
                          /\ results[i].tool_use_id = uses[i].id
                          /\ \A j \in 1..Len(uses) : j # i => results[j].tool_use_id # uses[i].id
    /\ (pc = "loop" /\ iterationCount > 0) =>
          /\ Len(messages) = 2 * iterationCount + 1
          /\ messages[Len(messages)].role = "user"

\* C9 witness: the results turn of a round with two tool uses, the first of
\* which failed
C9_Witness ==
    /\ pc = "loop"
    /\ Len(messages) = 3
    /\ Len(messages[3].content) = 2
    /\ "is_error" \in DOMAIN messages[3].content[1]
    /\ "is_error" \notin DOMAIN messages[3].content[2]

\* the records of every dispatch of a recorded kind, failed ones included, in
\* dispatch order
RECURSIVE RecordsOfEvery(_)
RecordsOfEvery(ds) ==
    IF ds = <<>> THEN <<>>
    ELSE (IF ds[1].name \in RecordedKinds THEN <<RecordOf(ds[1])>> ELSE <<>>)
         \o RecordsOfEvery(Tail(ds))

\* C10 as stated: the log is the sequence of the records of every read, write,
\* create, rename and delete invocation dispatched, one each, in dispatch order
\* (a rename record with both paths), and nothing else.
C10_RecordOfEveryInvocation ==
    operations = RecordsOfEvery(trace)

\* C10 witness: create_file("a.md", "x") was dispatched on a vault that holds
\* a.md and threw, a get_file_metadata invocation followed it, and the log holds
\* no record: neither of the exploration call nor of the create_file invocation
C10_FailedCreateUnrecorded ==
    /\ Len(trace) = 2
    /\ trace[1].name = "create_file" /\ trace[1].input.path = pA
    /\ trace[1].threw
    /\ trace[2].name = "get_file_metadata"
    /\ operations = <<>>

\* the log as the loop keeps it: the records of the read, write, create, rename
\* and delete invocations whose handler returned, in dispatch order, a rename
\* record carrying the old and the new path; nothing for list_files,
\* search_files, get_file_metadata, an unknown tool or a handler that threw
LogOfReturnedDispatches ==
    /\ operations = RecordsOf(trace)
    /\ \A i \in 1..Len(operations) :
          /\ operations[i].type \in {"read", "write", "create", "rename", "delete"}
          /\ operations[i].type = "rename" <=> "newPath" \in DOMAIN operations[i]

(***************************************************************************)
(* Properties of the handlers called in sequence (SpecHandlers)            *)
(***************************************************************************)

\* the vault after call i of the history
After(i) ==
    IF i < Len(trace) THEN trace[i + 1].before
    ELSE IF pending # <<>> THEN pending[1].before
    ELSE vault

\* call i is an invocation of the tool `name`
IsCall(i, name) == i \in 1..Len(trace) /\ trace[i].name = name

\* the path holds something before call i: a document or a directory
Occupied(i, path) == path \in DOMAIN trace[i].before.files \/ path \in trace[i].before.folders

\* v and w hold the same documents and directories, but for the document at path
SameBut(v, w, path) ==
    /\ v.folders = w.folders
    /\ v.trashedFiles = w.trashedFiles
    /\ v.trashedFolders = w.trashedFolders
    /\ DOMAIN v.files \ {path} = DOMAIN w.files \ {path}
    /\ \A q \in DOMAIN v.files \ {path} : v.files[q] = w.files[q]

\* C11: a write_file that succeeds stores stripDuplicateHeading(content, name of
\* the file) as the body of its document and changes nothing else, and a
\* read_file of the same path right after it returns exactly that body; a.md
\* written with "# a\nx" reads back "x".
C11_WriteThenRead ==
    /\ \A i \in 1..Len(trace) :
          (IsCall(i, "write_file") /\ ~trace[i].threw) =>
             LET path == trace[i].input.path
                 filtered == stripDuplicateHeading(trace[i].input.content, FileName(path))
             IN  /\ path \in DOMAIN After(i).files
                 /\ After(i).files[path] = filtered
                 /\ SameBut(After(i), trace[i].before, path)
                 /\ (IsCall(i + 1, "read_file") /\ trace[i + 1].input.path = path) =>
                       /\ ~trace[i + 1].threw
                       /\ trace[i + 1].value = filtered
    /\ (/\ Len(trace) = 2
        /\ IsCall(1, "write_file") /\ ~trace[1].threw
        /\ trace[1].input = [path |-> pA, content |-> <<"#", " ", "a", "\n", "x">>]
        /\ IsCall(2, "read_file") /\ trace[2].input.path = pA)
       => trace[2].value = <<"x">>

\* C11 witness: a.md was written with a content that starts with its own heading
\* and then read
C11_Witness ==
    /\ Len(trace) = 2
    /\ IsCall(1, "write_file") /\ ~trace[1].threw
    /\ trace[1].input = [path |-> pA, content |-> <<"#", " ", "a", "\n", "x">>]
    /\ IsCall(2, "read_file") /\ trace[2].input.path = pA
    /\ trace[2].value = <<"x">>

\* C12: write_file on a path that holds no document (nothing, or a directory)
\* throws "File not found: <path>. Use create_file to create a new file." and
\* leaves the vault as it was.
C12_WriteMissing ==
    \A i \in 1..Len(trace) :
       (IsCall(i, "write_file") /\ trace[i].input.path \notin DOMAIN trace[i].before.files) =>
          /\ trace[i].threw
          /\ trace[i].value = <<"File not found: ">> \o trace[i].input.path
                              \o <<". Use create_file to create a new file.">>
          /\ After(i) = trace[i].before

\* C12 witness: a write to an absent path and then a write to a directory
C12_Witness ==
    /\ Len(trace) = 2
    /\ IsCall(1, "write_file") /\ trace[1].input.path = pMissing /\ trace[1].threw
    /\ IsCall(2, "write_file") /\ trace[2].input.path = pD /\ trace[2].threw
    /\ pD \in vault.folders

\* C13: create_file on a path that holds a document or a directory throws
\* "File already exists: <path>. Use write_file to update it." and leaves the
\* vault, directories included, as it was.
C13_CreateOccupied ==
    \A i \in 1..Len(trace) :
       (IsCall(i, "create_file") /\ Occupied(i, trace[i].input.path)) =>
          /\ trace[i].threw
          /\ trace[i].value = <<"File already exists: ">> \o trace[i].input.path
                              \o <<". Use write_file to update it.">>
          /\ After(i) = trace[i].before

\* C13 witness: a create on the path of a document, whose body is still the old
\* one, and then a create on the path of a directory
C13_Witness ==
    /\ Len(trace) = 2
    /\ IsCall(1, "create_file") /\ trace[1].input.path = pA /\ trace[1].threw
    /\ IsCall(2, "create_file") /\ trace[2].input.path = pD /\ trace[2].threw
    /\ vault.files[pA] = <<"x">>

\* the content a create_file invocation asks for: '' when it gives none
GivenContent(input) == IF "content" \in DOMAIN input THEN input.content ELSE <<>>

\* C14: a create_file that succeeds stores the content it was given, unfiltered
\* (the empty body when no content was given), changes no other document, and a
\* read_file of the path right after it returns that content.
C14_CreateVerbatim ==
    \A i \in 1..Len(trace) :
       (IsCall(i, "create_file") /\ ~trace[i].threw) =>
          LET path == trace[i].input.path
          IN  /\ path \notin DOMAIN trace[i].before.files
              /\ path \in DOMAIN After(i).files
              /\ After(i).files[path] = GivenContent(trace[i].input)
              /\ \A q \in DOMAIN trace[i].before.files :
                    q \in DOMAIN After(i).files /\ After(i).files[q] = trace[i].before.files[q]
              /\ DOMAIN After(i).files = DOMAIN trace[i].before.files \cup {path}
              /\ (IsCall(i + 1, "read_file") /\ trace[i + 1].input.path = path) =>
                    /\ ~trace[i + 1].threw
                    /\ trace[i + 1].value = GivenContent(trace[i].input)

\* C14 witness: n/c.md was created with "# c\nx", whose first line is the heading
\* of its own name, and read back with the heading in place
C14_Witness ==
    /\ Len(trace) = 2
    /\ IsCall(1, "create_file") /\ ~trace[1].threw
    /\ trace[1].input = [path |-> pNC, content |-> <<"#", " ", "c", "\n", "x">>]
    /\ IsCall(2, "read_file") /\ trace[2].input.path = pNC
    /\ trace[2].value = <<"#", " ", "c", "\n", "x">>

\* C15: after a rename_file of a document that succeeds, the new path holds the
\* body the old path held, the old path holds nothing, a read_file of the new
\* path returns that body and a read_file of the old path throws
\* "File not found: <old path>".
C15_RenameThenRead ==
    \A i \in 1..Len(trace) :
       (/\ IsCall(i, "rename_file")
        /\ ~trace[i].threw
        /\ trace[i].input.old_path \in DOMAIN trace[i].before.files) =>
          LET A == trace[i].input.old_path
              B == trace[i].input.new_path
              body == trace[i].before.files[A]
          IN  /\ B \in DOMAIN After(i).files
              /\ After(i).files[B] = body
              /\ A \notin DOMAIN After(i).files
              /\ A \notin After(i).folders
              /\ (IsCall(i + 1, "read_file") /\ trace[i + 1].input.path = B) =>
                    (~trace[i + 1].threw /\ trace[i + 1].value = body)
              /\ (IsCall(i + 1, "read_file") /\ trace[i + 1].input.path = A) =>
                    (trace[i + 1].threw /\ trace[i + 1].value = <<"File not found: ">> \o A)

\* C15 witness: a.md was renamed to missing.md and missing.md read
C15_Witness ==
    /\ Len(trace) = 2
    /\ IsCall(1, "rename_file") /\ ~trace[1].threw
    /\ trace[1].input = [old_path |-> pA, new_path |-> pMissing]
    /\ IsCall(2, "read_file") /\ trace[2].input.path = pMissing
    /\ trace[2].value = <<"x">>

\* C16: rename_file throws "File not found: <old path>" when the old path holds
\* nothing, and "Destination already exists: <new path>" when the old path holds
\* something and the new path is taken (the old path itself included); the vault
\* is left as it was in both cases.
C16_RenameErrors ==
    \A i \in 1..Len(trace) :
       IsCall(i, "rename_file") =>
          LET old == trace[i].input.old_path
              new == trace[i].input.new_path
          IN  /\ ~Occupied(i, old) =>
                    /\ trace[i].threw
                    /\ trace[i].value = <<"File not found: ">> \o old
                    /\ After(i) = trace[i].before
              /\ (Occupied(i, old) /\ Occupied(i, new)) =>
                    /\ trace[i].threw
                    /\ trace[i].value = <<"Destination already exists: ">> \o new
                    /\ After(i) = trace[i].before

\* C16 witness: a rename of an absent path and then a rename of a.md to itself
C16_Witness ==
    /\ Len(trace) = 2
    /\ IsCall(1, "rename_file") /\ trace[1].input.old_path = pMissing /\ trace[1].threw
    /\ IsCall(2, "rename_file") /\ trace[2].input = [old_path |-> pA, new_path |-> pA]
    /\ trace[2].threw
    /\ vault = InitialVault

(***************************************************************************)
(* Reading the JSON text a handler returned                                *)
(***************************************************************************)

\* the positions of a token in a returned text
PositionsOf(text, token) == {k \in 1..Len(text) : text[k] = token}

\* the token that follows the (one) occurrence of a key
TokenAfter(text, key) == text[(CHOOSE k \in PositionsOf(text, key) : TRUE) + 1]

\* the string value that starts at the quote at position k
StringAt(text, k) ==
    LET close == CHOOSE e \in (k + 1)..Len(text) :
                    text[e] = "\"" /\ \A j \in (k + 1)..(e - 1) : text[j] # "\""
    IN  SubSeq(text, k + 1, close - 1)

\* the paths of the entries of a listing or of a search result
PathsIn(text) == {StringAt(text, k + 1) : k \in PositionsOf(text, "{\"path\":")}

\* the documents of vault v that a search for the query finds, within a folder
Matching(v, query, folder) ==
    {p \in DOMAIN v.files :
        /\ IsMarkdown(p)
        /\ folder # <<>> => startsWith(p, IF endsWith(folder, <<"/">>) THEN folder
                                          ELSE folder \o <<"/">>)
        /\ prepareSimpleSearch(query, v.files[p])}

\* C18: search_files returns at most maxResults documents (max_results, or 50
\* when none is given), all of them documents that match, as many as match up
\* to maxResults; files_with_matches is their number, truncated is true exactly
\* when that number reached maxResults, and the scan stops at the document that
\* reached it.  With max_results 1 on a vault with two matching documents the
\* result holds one document and truncated is true.
C18_SearchLimit ==
    \A i \in 1..Len(trace) :
       IsCall(i, "search_files") =>
          LET input == trace[i].input
              text == trace[i].value
              maxResults == IF "max_results" \in DOMAIN input THEN input.max_results ELSE 50
              folder == IF "folder" \in DOMAIN input THEN input.folder ELSE <<>>
              matching == Matching(trace[i].before, input.query, folder)
              found == Cardinality(PositionsOf(text, "{\"path\":"))
              scanned == Cardinality({p \in DOMAIN trace[i].before.files :
                            /\ IsMarkdown(p)
                            /\ folder # <<>> =>
                                  startsWith(p, IF endsWith(folder, <<"/">>) THEN folder
                                                ELSE folder \o <<"/">>)})
          IN  /\ ~trace[i].threw
              /\ found <= maxResults
              /\ PathsIn(text) \subseteq matching
              /\ Cardinality(PathsIn(text)) = found
              /\ found = (IF Cardinality(matching) < maxResults THEN Cardinality(matching)
                          ELSE maxResults)
              /\ TokenAfter(text, ",\"files_with_matches\":") = ToString(found)
              /\ TokenAfter(text, ",\"truncated\":") = (IF found = maxResults THEN "true"
                                                        ELSE "false")
              /\ found < maxResults =>
                    TokenAfter(text, ",\"total_files_searched\":") = ToString(scanned)
              /\ (found = maxResults /\ Cardinality(matching) > maxResults) =>
                    TokenAfter(text, ",\"total_files_searched\":") # ToString(scanned)
              /\ (input = [query |-> <<"x">>, max_results |-> 1]
                  /\ trace[i].before = InitialVault) =>
                    /\ Cardinality(matching) = 2
                    /\ found = 1
                    /\ TokenAfter(text, ",\"truncated\":") = "true"
                    /\ TokenAfter(text, ",\"total_files_searched\":") = "1"

\* C18 witness: a search for "x" with max_results 1 on the vault whose two
\* documents both hold an x
C18_Witness ==
    /\ Len(trace) = 1
    /\ IsCall(1, "search_files")
    /\ trace[1].input = [query |-> <<"x">>, max_results |-> 1]
    /\ Cardinality(Matching(trace[1].before, <<"x">>, <<>>)) = 2
    /\ Cardinality(PathsIn(trace[1].value)) = 1

\* C19 as stated: list_files without folder and pattern lists every document of
\* the vault, with a folder exactly the documents whose path starts with the
\* folder and a '/', count is the number of entries, and a document just created
\* is in the unfiltered listing.
C19_ListsEveryDocument ==
    \A i \in 1..Len(trace) :
       IsCall(i, "list_files") =>
          LET input == trace[i].input
              text == trace[i].value
              folder == IF "folder" \in DOMAIN input THEN input.folder ELSE <<>>
              normalized == IF endsWith(folder, <<"/">>) THEN folder ELSE folder \o <<"/">>
              listed == PathsIn(text)
          IN  /\ ~trace[i].threw
              /\ folder = <<>> => listed = DOMAIN trace[i].before.files
              /\ folder # <<>> =>
                    listed = {p \in DOMAIN trace[i].before.files : startsWith(p, normalized)}
              /\ TokenAfter(text, ",\"count\":") = ToString(Cardinality(listed))
              /\ (folder = <<>> /\ IsCall(i - 1, "create_file") /\ ~trace[i - 1].threw) =>
                    trace[i - 1].input.path \in listed

\* C19 witness: t.txt was created and the unfiltered listing that follows does
\* not hold it
C19_CreatedNotListed ==
    /\ Len(trace) = 2
    /\ IsCall(1, "create_file") /\ ~trace[1].threw /\ trace[1].input.path = pT
    /\ IsCall(2, "list_files") /\ "folder" \notin DOMAIN trace[2].input
    /\ pT \in DOMAIN vault.files
    /\ pT \notin PathsIn(trace[2].value)
    /\ PathsIn(trace[2].value) = {pA, pDB}

(***************************************************************************)
(* Properties of stripDuplicateHeading (SpecFilter)                        *)
(***************************************************************************)

\* the file name without its extension: what precedes its last '.'
WithoutExtension(filename) ==
    LET dots == {k \in 1..Len(filename) : filename[k] = "."}
    IN  IF dots = {} THEN filename
        ELSE SubSeq(filename, 1, (CHOOSE k \in dots : \A j \in dots : j <= k) - 1)

\* the file name without a closing ".md"
WithoutMd(filename) ==
    IF Len(filename) >= 3 /\ SubSeq(filename, Len(filename) - 2, Len(filename)) = <<".", "m", "d">>
    THEN SubSeq(filename, 1, Len(filename) - 3)
    ELSE filename

\* the line without the white space around it
Bare(line) ==
    LET inked == {k \in 1..Len(line) : ~IsSpace(line[k])}
    IN  IF inked = {} THEN <<>>
        ELSE SubSeq(line, CHOOSE k \in inked : \A j \in inked : k <= j,
                          CHOOSE k \in inked : \A j \in inked : j <= k)

\* the line is a level-1 heading whose text is `title`
IsHeadingOf(line, title) ==
    /\ Len(Bare(line)) >= 2
    /\ Bare(line)[1] = "#" /\ Bare(line)[2] = " "
    /\ Bare(SubSeq(Bare(line), 3, Len(Bare(line)))) = title

\* what the filter has to return for a content and an identifier: the content
\* without its first non-blank line when that line is the heading of the
\* identifier, the content itself otherwise
Filtered(content, identifier) ==
    LET breaks == {k \in 1..Len(content) : content[k] = "\n"}
        starts == {1} \cup {k + 1 : k \in breaks}
        end(b) == IF \E k \in breaks : k >= b
                  THEN (CHOOSE k \in breaks : k >= b /\ \A j \in breaks : j >= b => k <= j) - 1
                  ELSE Len(content)
        inked == {b \in starts : Bare(SubSeq(content, b, end(b))) # <<>>}
    IN  IF inked = {} THEN content
        ELSE LET b == CHOOSE k \in inked : \A j \in inked : k <= j
             IN  IF ~IsHeadingOf(SubSeq(content, b, end(b)), identifier) THEN content
                 ELSE IF end(b) < Len(content)
                      THEN SubSeq(content, 1, b - 1) \o SubSeq(content, end(b) + 2, Len(content))
                      ELSE SubSeq(content, 1, b - 2)

\* C17 as stated: the filter removes the first non-blank line exactly when it is
\* the level-1 heading of the file name without its extension.
C17_HeadingOfNameWithoutExtension ==
    \A i \in 1..Len(trace) :
       IsCall(i, "stripDuplicateHeading") =>
          trace[i].value = Filtered(trace[i].input.content,
                                    WithoutExtension(trace[i].input.filename))

\* C17 amended: the filter removes the first non-blank line, and only that line,
\* exactly when the line, without the white space around it, is "# " followed by
\* the file name without a closing ".md" (white space around that text aside);
\* for a file name that does not end in ".md" the whole name, extension
\* included, is what the heading is compared with.  For a.md, "# a\nx" becomes
\* "x" and "# b\nx" stays as it is.
C17_HeadingOfNameWithoutMd ==
    \A i \in 1..Len(trace) :
       IsCall(i, "stripDuplicateHeading") =>
          LET content == trace[i].input.content
              filename == trace[i].input.filename
          IN  /\ trace[i].value = Filtered(content, WithoutMd(filename))
              /\ (filename = pA /\ content = <<"#", " ", "a", "\n", "x">>) =>
                    trace[i].value = <<"x">>
              /\ (filename = pA /\ content = <<"#", " ", "b", "\n", "x">>) =>
                    trace[i].value = content

\* C17 witness: for a.md the heading "# a" after a blank line was removed and
\* the blank line and the body were kept
C17_Witness ==
    /\ Len(trace) = 1
    /\ IsCall(1, "stripDuplicateHeading")
    /\ trace[1].input = [content |-> <<" ", "\n", "#", " ", "a">>, filename |-> pA]
    /\ trace[1].value = <<" ">>

(***************************************************************************)
(* Properties of processWithAI (Spec)                                      *)
(***************************************************************************)

\* the texts of the text blocks of a response, one after the other
RECURSIVE TextOf(_)
TextOf(content) ==
    IF content = <<>> THEN <<>>
    ELSE (IF content[1].type = "text" THEN content[1].text ELSE <<>>) \o TextOf(Tail(content))

\* C20: once the response to processWithAI has arrived, the call returns the
\* texts of its text blocks one after the other, nothing between them and the
\* other blocks left out, when it holds a text block, and throws the
\* no-text-content Error exactly when it holds none.
C20_SingleText ==
    (entry = "processWithAI" /\ message # NoMessage) =>
       LET content == message.content
           noText == \A k \in 1..Len(content) : content[k].type # "text"
       IN  /\ pc \in {"returned", "threw"}
           /\ pc = "threw" <=> noText
           /\ pc = "returned" => (returned = TextOf(content) /\ thrown = <<>>)
           /\ pc = "threw" =>
                 /\ thrown = <<"Failed to process with AI: ", "No text content in AI response">>
                 /\ returned = <<>>

\* C20 witness: a response of two text blocks was returned as one text
C20_Witness ==
    /\ entry = "processWithAI"
    /\ pc = "returned"
    /\ message.content = <<[type |-> "text", text |-> <<"!">>], TextBlock>>
    /\ returned = <<"!", "o", "k">>

(***************************************************************************)
(* Properties of the conversation, of termination and of the notice (Spec, *)
(* SpecFair)                                                               *)
(***************************************************************************)

\* the run has begun and not ended
Running == AgentRun /\ pc \in {"loop", "awaiting", "dispatch", "after_loop"}

\* the run has ended: it returned (DONE or ABORTED_MAX_ITERATIONS) or threw (FAILED)
Ended == AgentRun /\ pc \in {"returned", "threw"}

\* Spec with the scheduling of the host: every call the run awaits (the service
\* call, a handler's store call) returns or rejects, so a run that has begun and
\* not ended takes a further step.  This is WF_vars(Next) with ENABLED <<Next>>_vars
\* written as the state predicate it equals on a run: in each of the positions
\* of Running one of the actions is enabled (the guards of CallService and
\* LoopEnds, and of DispatchTool and EndRound, are complementary; ServiceReplies
\* and Finish have no guard but the position).
SpecFair == Spec /\ (<>[](~Running) \/ []<><<Next>>_vars)

\* turn i of a conversation has the role its position gives it
RoleAt(i) == IF i % 2 = 1 THEN "user" ELSE "assistant"

\* the conversation of the run so far: a first user turn with the request, then
\* assistant and user turns in alternation, the user turns after the first
\* holding tool_result blocks
WellFormedConversation ==
    /\ messages # <<>>
    /\ messages[1] = [role |-> "user",
                      content |-> initialMessage(<<"<userPrompt>">>, pA, <<"x">>)]
    /\ \A i \in 1..Len(messages) : messages[i].role = RoleAt(i)
    /\ \A i \in 2..Len(messages) :
          messages[i].role = "user" =>
             \A k \in 1..Len(messages[i].content) :
                messages[i].content[k].type = "tool_result"

\* C28: in a run the conversation starts with one user turn and alternates
\* user/assistant; the service call of round n is given the whole conversation
\* of rounds 1..n-1 (2n-1 turns); the reply of the round is the last turn, with
\* all its blocks in order, while its tools are dispatched; and no step removes,
\* reorders or rewrites a turn: each step leaves the conversation as it is or
\* appends one turn to it.
C28_ConversationAppendOnly ==
    /\ []((AgentRun /\ pc \in {"loop", "awaiting", "dispatch", "after_loop", "returned"})
            => WellFormedConversation)
    /\ []((AgentRun /\ pc = "awaiting") =>
            /\ request.messages = messages
            /\ Len(messages) = 2 * iterationCount - 1)
    /\ []((AgentRun /\ pc = "dispatch") =>
            /\ Len(messages) = 2 * iterationCount
            /\ messages[Len(messages)] = [role |-> "assistant", content |-> message.content])
    /\ [][\/ messages' = messages
          \/ /\ Len(messages') = Len(messages) + 1
             /\ SubSeq(messages', 1, Len(messages)) = messages]_vars
    /\ [][trace' # trace =>
            /\ messages' = messages
            /\ messages[Len(messages)].content = message.content
            /\ toolUses = toolUsesOf(messages[Len(messages)].content)]_vars

\* C28 witness: the second service call is under way with the three turns of the
\* first round, whose reply came with a text block and two tool uses
C28_Witness ==
    /\ AgentRun
    /\ pc = "awaiting"
    /\ iterationCount = 2
    /\ Len(request.messages) = 3
    /\ Len(request.messages[2].content) = 3
    /\ request.messages[2].content[1].type = "text"
    /\ Len(request.messages[3].content) = 2

\* C29: every run that has begun ends, after at most 50 service calls; it ends
\* in exactly one of DONE, ABORTED_MAX_ITERATIONS and FAILED and stays there;
\* in the first two it has returned the log, in the third it has thrown.
C29_RunTerminates ==
    /\ Running ~> Ended
    /\ [](AgentRun => callCount <= 50)
    /\ [](Ended =>
            /\ (IF Done THEN 1 ELSE 0) + (IF AbortedMaxIterations THEN 1 ELSE 0)
                  + (IF pc = "threw" THEN 1 ELSE 0) = 1
            /\ (Done \/ AbortedMaxIterations) => (returned = operations /\ thrown = <<>>)
            /\ AbortedMaxIterations => callCount = 50
            /\ pc = "threw" => thrown # <<>>)
    /\ [][Ended => UNCHANGED vars]_vars

\* C29 witness: a run aborted by the cap has returned a log with the record of a
\* file it created in its last round
C29_Witness ==
    /\ AbortedMaxIterations
    /\ callCount = 50
    /\ returned # <<>>
    /\ returned[Len(returned)].type = "create"

\* C30: a run that ends because the service stopped (no tool use in the reply,
\* or end_turn) raises no maximum-iterations Notice, in whichever round it ends.
C30_NoticeOnlyWhenAborted == Done => notices = <<>>

\* C30 witness: the reply of round 50 signalled end_turn, the run is done, and
\* the maximum-iterations Notice was raised
C30_DoneInLastRoundNoticed ==
    /\ Done
    /\ iterationCount = 50
    /\ message.stop_reason = "end_turn"
    /\ notices = <<MaxIterationsNotice>>

(***************************************************************************)
(* Properties of the tree under the handlers (SpecHandlers)                *)
(***************************************************************************)

\* the paths of the directories above a path, nearest last
Ancestors(path) ==
    LET parts == split(path, "/")
    IN  {join(SubSeq(parts, 1, k), <<"/">>) : k \in 1..(Len(parts) - 1)}

\* no path is a document and a directory at once
OneNodePerPath(v) == DOMAIN v.files \cap v.folders = {}

\* C23: in every tree the handlers produce no path is a document and a directory
\* at once, and no handler puts a document where something is: a create_file
\* that succeeds found its path empty and adds that one document, a rename_file
\* that succeeds found its new path empty and keeps the number of documents, and
\* write_file and delete_file make no path a document that was not one.
C23_OneNodePerPath ==
    /\ OneNodePerPath(vault)
    /\ \A i \in 1..Len(trace) :
          LET before == trace[i].before
              after == After(i)
          IN  /\ OneNodePerPath(before)
              /\ (IsCall(i, "create_file") /\ ~trace[i].threw) =>
                    /\ ~Occupied(i, trace[i].input.path)
                    /\ DOMAIN after.files = DOMAIN before.files \cup {trace[i].input.path}
                    /\ Cardinality(DOMAIN after.files) = Cardinality(DOMAIN before.files) + 1
              /\ (IsCall(i, "rename_file") /\ ~trace[i].threw) =>
                    /\ ~Occupied(i, trace[i].input.new_path)
                    /\ Cardinality(DOMAIN after.files) = Cardinality(DOMAIN before.files)
                    /\ Cardinality(after.folders) = Cardinality(before.folders)
              /\ (IsCall(i, "write_file") \/ IsCall(i, "delete_file")) =>
                    DOMAIN after.files \subseteq DOMAIN before.files

\* C23 witness: a create_file at the path of a directory and a rename_file onto
\* the path of a document were both refused
C23_Witness ==
    /\ Len(trace) = 2
    /\ IsCall(1, "create_file") /\ trace[1].input.path = pD /\ trace[1].threw
    /\ IsCall(2, "rename_file") /\ trace[2].input = [old_path |-> pA, new_path |-> pDB]
    /\ trace[2].threw
    /\ vault = InitialVault

\* C24: a create_file that succeeds leaves a directory at every path above its
\* document and takes away no directory or document that was there; and no call
\* of any handler takes a directory away: the directories before a call are
\* directories after it.
C24_DirectoriesPersist ==
    \A i \in 1..Len(trace) :
       LET before == trace[i].before
           after == After(i)
       IN  /\ before.folders \subseteq after.folders
           /\ (IsCall(i, "create_file") /\ ~trace[i].threw) =>
                 /\ Ancestors(trace[i].input.path) \subseteq after.folders
                 /\ after.folders = before.folders \cup Ancestors(trace[i].input.path)
                 /\ \A q \in DOMAIN before.files :
                       q \in DOMAIN after.files /\ after.files[q] = before.files[q]

\* C24 witness: delete_file was called with the path of the directory d and
\* succeeded; the directory and the document in it are gone from the tree
C24_DirectoryTrashed ==
    /\ Len(trace) = 1
    /\ IsCall(1, "delete_file") /\ trace[1].input.path = pD /\ ~trace[1].threw
    /\ pD \in trace[1].before.folders
    /\ pD \notin vault.folders
    /\ pDB \notin DOMAIN vault.files

\* C27: delete_file throws "File not found: <path>" and leaves the tree as it
\* was when its path holds nothing; when the path holds a document the call
\* succeeds, the document is gone from the tree and kept, with its body, in the
\* trash, every other document and directory is as before, and a read_file of
\* the path right after it throws "File not found: <path>".
C27_DeleteToTrash ==
    \A i \in 1..Len(trace) :
       IsCall(i, "delete_file") =>
          LET path == trace[i].input.path
              before == trace[i].before
              after == After(i)
          IN  /\ ~Occupied(i, path) =>
                    /\ trace[i].threw
                    /\ trace[i].value = <<"File not found: ">> \o path
                    /\ after = before
              /\ Occupied(i, path) =>
                    /\ ~trace[i].threw
                    /\ trace[i].value = <<"Successfully deleted ">> \o path
                    /\ path \notin DOMAIN after.files
                    /\ path \notin after.folders
                    /\ (IsCall(i + 1, "read_file") /\ trace[i + 1].input.path = path) =>
                          /\ trace[i + 1].threw
                          /\ trace[i + 1].value = <<"File not found: ">> \o path
              /\ path \in DOMAIN before.files =>
                    /\ after.trashedFiles =
                          before.trashedFiles \cup {[path |-> path, data |-> before.files[path]]}
                    /\ after.trashedFolders = before.trashedFolders
                    /\ after.folders = before.folders
                    /\ DOMAIN after.files = DOMAIN before.files \ {path}
                    /\ \A q \in DOMAIN after.files : after.files[q] = before.files[q]

\* C27 witness: a.md was deleted and then read: the read failed and the trash
\* holds a.md with its body
C27_Witness ==
    /\ Len(trace) = 2
    /\ IsCall(1, "delete_file") /\ trace[1].input.path = pA /\ ~trace[1].threw
    /\ IsCall(2, "read_file") /\ trace[2].input.path = pA /\ trace[2].threw
    /\ vault.trashedFiles = {[path |-> pA, data |-> <<"x">>]}

(***************************************************************************)
(* Single-document mode: SingleNotePromptModal.handleSubmit, which calls   *)
(* processWithAI with the text of the editor and applies the response      *)
(***************************************************************************)

\* the state in which the modal is open on a note
InitSingleNote ==
    /\ settings \in [anthropicApiKey : {<<>>, <<"sk-ant">>}, enableDeleteFiles : {FALSE}]
    /\ vault = InitialVault
    /\ entry = "none"
    /\ pc = "idle"
    /\ operations = <<>>
    /\ tools = <<>>
    /\ messages = <<>>
    /\ iterationCount = 0
    /\ continueLoop = TRUE
    /\ message = NoMessage
    /\ toolUses = <<>>
    /\ toolResults = <<>>
    /\ cursor = 0
    /\ request = NoRequest
    /\ notices = <<>>
    /\ returned = <<>>
    /\ thrown = <<>>
    /\ callCount = 0
    /\ serviceError = <<>>
    /\ quiet = 0
    /\ issued = 0
    /\ trace = <<>>
    /\ editor \in {<<"x">>, <<>>}
    /\ modals = <<>>
    /\ sessions = <<>>
    /\ pending = <<>>

\* blank submissions of a prompt modal in one history
MaxBlankPrompts == 1

\* what the user may have typed in the prompt field when handleSubmit runs
PromptInputs == {<<>>, <<" ">>, <<"<userPrompt>">>}

\* handleSubmit up to its return or its await.  A prompt that is blank after
\* trim() raises the Notice 'Please enter a prompt' and nothing else: the modal
\* stays open and can be submitted again.  Else the text of the editor is
\* taken, the modal closes, the processing Notice is raised and processWithAI
\* begins (credential check, then the one service call)
SubmitSingle ==
    /\ pc = "idle"
    /\ \E value \in PromptInputs :
          LET prompt == trim(value)
          IN  IF prompt = <<>>
              THEN /\ Cardinality({i \in 1..Len(notices) :
                                     notices[i] = <<"Please enter a prompt">>})
                      < MaxBlankPrompts
                   /\ notices' = Append(notices, <<"Please enter a prompt">>)
                   /\ UNCHANGED <<entry, trace, thrown, pc, request, callCount>>
              ELSE /\ entry' = "processWithAI"
                   /\ trace' = <<[name |-> "handleSubmit",
                                  input |-> [currentContent |-> editor]]>>
                   /\ notices' = Append(notices, <<"Processing with AI...">>)
                   /\ IF apiKeyMissing(settings)
                      THEN /\ thrown' = ApiKeyError
                           /\ pc' = "threw"
                           /\ UNCHANGED <<request, callCount>>
                      ELSE /\ request' = [system |-> "SINGLE_NOTE_SYSTEM_PROMPT",
                                          messages |-> <<[role |-> "user",
                                                          content |-> singleMessage(editor,
                                                                                    prompt)]>>,
                                          tools |-> <<"web_fetch", "web_search">>]
                           /\ callCount' = callCount + 1
                           /\ pc' = "single_awaiting"
                           /\ UNCHANGED thrown
    /\ UNCHANGED <<settings, vault, operations, tools, messages, iterationCount,
                   continueLoop, message, toolUses, toolResults, cursor, returned,
                   serviceError, quiet, issued, editor, modals, sessions>>
    /\ UNCHANGED pending

\* the views getActiveViewOfType may return when the response is there: the view
\* of the modal, another one, or none
ActiveViews == {"this.view", "another view", "null"}

\* mutant of contextChanged: only the absence of an active view counts
contextChanged_noViewOnly(activeView) == activeView = "null"

\* !activeView || activeView !== this.view
contextChanged(activeView) == activeView = "null" \/ activeView # "this.view"

\* handleSubmit after processWithAI returned: an error response is shown in an
\* ErrorMessageModal; else the response is dropped when the note is no longer the
\* active one, and put in the editor when it is
ApplyResponse ==
    /\ pc = "returned"
    /\ entry = "processWithAI"
    /\ IF isErrorResponse(returned)
       THEN /\ modals' = Append(modals, [type |-> "ErrorMessageModal",
                                         message |-> errorMessageOf(returned)])
            /\ UNCHANGED <<editor, notices, trace>>
       ELSE \E activeView \in ActiveViews :
               /\ trace' = Append(trace, [name |-> "getActiveViewOfType",
                                          value |-> activeView])
               /\ IF contextChanged(activeView)
                  THEN /\ notices' = Append(notices,
                             <<"Note context changed. AI response not applied. Check console for the response.">>)
                       /\ UNCHANGED <<editor, modals>>
                  ELSE /\ editor' = returned
                       /\ notices' = Append(notices, <<"Note updated successfully!">>)
                       /\ UNCHANGED modals
    /\ pc' = "closed"
    /\ UNCHANGED <<settings, vault, entry, operations, tools, messages, iterationCount,
                   continueLoop, message, toolUses, toolResults, cursor, request, returned,
                   thrown, callCount, serviceError, quiet, issued, sessions>>
    /\ UNCHANGED pending

\* handleSubmit after processWithAI threw: the catch block raises a Notice
ReportError ==
    /\ pc = "threw"
    /\ entry = "processWithAI"
    /\ notices' = Append(notices, <<"Error: ">> \o thrown)
    /\ pc' = "closed"
    /\ UNCHANGED <<settings, vault, entry, operations, tools, messages, iterationCount,
                   continueLoop, message, toolUses, toolResults, cursor, request, returned,
                   thrown, callCount, serviceError, quiet, issued, trace, editor, modals,
                   sessions>>
    /\ UNCHANGED pending

NextSingleNote ==
    \/ SubmitSingle
    \/ SingleResponds
    \/ SingleRejects
    \/ ApplyResponse
    \/ ReportError

SpecSingleNote == InitSingleNote /\ [][NextSingleNote]_vars

\* the text the editor held when the modal was submitted
Captured == trace[1].input.currentContent

\* handleSubmit has been called
Submitted == entry = "processWithAI" /\ trace # <<>>

\* C21: when the text processWithAI returned starts with "[ERROR:", handleSubmit
\* opens one ErrorMessageModal (with the text between the marker and the last
\* character when the text is longer than the marker), raises no Notice and
\* leaves the editor as it is; the editor never holds a text that starts with
\* the marker.
C21_ErrorMarkerNotApplied ==
    /\ [](Submitted => ~startsWith(editor, ErrorMarker))
    /\ [][(Submitted /\ pc = "returned" /\ startsWith(returned, ErrorMarker)) =>
            /\ pc' = "closed"
            /\ editor' = editor
            /\ notices' = notices
            /\ Len(modals') = Len(modals) + 1
            /\ SubSeq(modals', 1, Len(modals)) = modals
            /\ modals'[Len(modals')].type = "ErrorMessageModal"
            /\ Len(returned) > Len(ErrorMarker) =>
                  modals'[Len(modals')].message =
                     trim(SubSeq(returned, 8, Len(returned) - 1))]_vars

\* C21 witness: the response "[ERROR: no]" came in two text blocks, the modal
\* shows "no" and the editor holds what it held
C21_Witness ==
    /\ Submitted
    /\ pc = "closed"
    /\ Len(message.content) = 2
    /\ returned = ErrorMarker \o <<" ", "n", "o", "]">>
    /\ modals = <<[type |-> "ErrorMessageModal", message |-> <<"n", "o">>]>>
    /\ editor = <<"x">>

\* the call of processWithAI failed: no credential, a rejected service call, or
\* a response without text block
FatalError ==
    \/ apiKeyMissing(settings)
    \/ serviceError # <<>>
    \/ (message # NoMessage /\ textBlocksOf(message.content) = <<>>)

\* C22: after a submission whose call of processWithAI failed the editor holds
\* the text it held at the submission, and the failure is shown as the Notice
\* "Error: <message>"; the editor changes only in the step that follows a
\* successful return of processWithAI, and then to the whole returned text.
C22_FatalLeavesNoteUntouched ==
    /\ []((Submitted /\ FatalError) =>
            /\ editor = Captured
            /\ thrown # <<>>
            /\ pc \in {"threw", "closed"}
            /\ pc = "closed" => notices[Len(notices)] = <<"Error: ">> \o thrown)
    /\ []((Submitted /\ thrown # <<>>) => FatalError)
    /\ [][editor' # editor =>
            /\ pc = "returned"
            /\ thrown = <<>>
            /\ ~FatalError
            /\ editor' = returned]_vars

\* C22 witness: the service call was rejected, the failure was shown and the
\* editor holds its text
C22_Witness ==
    /\ Submitted
    /\ pc = "closed"
    /\ serviceError = <<"529 Overloaded">>
    /\ notices[Len(notices)] = <<"Error: ", "Failed to process with AI: ", "529 Overloaded">>
    /\ editor = <<"x">>

(***************************************************************************)
(* Several agent runs on one vault.  The command 'act-on-vault' opens a    *)
(* VaultAgentPromptModal whenever a note is open, and handleSubmit closes  *)
(* the modal before it awaits processVaultAgent, so that the command can   *)
(* be given again while a run awaits the service or a host call.  Each run *)
(* has its own locals, kept in `sessions`; a step is what a run does       *)
(* between two awaits, or a part of it that ends where no handler is       *)
(* between its existence check and its host call.  A host call takes       *)
(* effect on the tree where it is made.                                    *)
(***************************************************************************)

\* the number of times the command is given
MaxSessions == 2

\* the tool invocations the service may choose from in these runs
SessionCalls ==
    { [name |-> "create_file", input |-> [path |-> pNC]],
      [name |-> "create_file", input |-> [path |-> pNC, content |-> <<"x">>]],
      [name |-> "write_file", input |-> [path |-> pA, content |-> <<"w">>]],
      [name |-> "rename_file", input |-> [old_path |-> pA, new_path |-> pMissing]],
      [name |-> "delete_file", input |-> [path |-> pA]],
      [name |-> "delete_file", input |-> [path |-> pN]] }

\* the replies the service may give to call n with `left` free tool uses left
SessionRepliesTo(n, left) ==
    LET most == IF left < MaxBlocks THEN left ELSE MaxBlocks
    IN  { [content |-> <<TextBlock>> \o toolUseBlocks(n, calls), stop_reason |-> stop] :
            calls \in UNION {[1..k -> SessionCalls] : k \in 0..most},
            stop \in StopReasons }

\* the state before the command is given
InitSessions ==
    /\ settings \in [anthropicApiKey : {<<>>, <<"sk-ant">>}, enableDeleteFiles : {TRUE}]
    /\ vault = InitialVault
    /\ entry = "none"
    /\ pc = "idle"
    /\ operations = <<>>
    /\ tools = <<>>
    /\ messages = <<>>
    /\ iterationCount = 0
    /\ continueLoop = TRUE
    /\ message = NoMessage
    /\ toolUses = <<>>
    /\ toolResults = <<>>
    /\ cursor = 0
    /\ request = NoRequest
    /\ notices = <<>>
    /\ returned = <<>>
    /\ thrown = <<>>
    /\ callCount = 0
    /\ serviceError = <<>>
    /\ quiet = 0
    /\ issued = 0
    /\ trace = <<>>
    /\ editor = <<"x">>
    /\ modals = <<>>
    /\ sessions = <<>>
    /\ pending = <<>>

\* the variables that hold the locals of the one run of Spec, not used here
singleRunVars ==
    <<pc, operations, messages, iterationCount, continueLoop, message, toolUses,
      toolResults, cursor, returned, thrown, serviceError, quiet, editor>>

\* the tool use a run is at
toolUseOf(sess) == sess.toolUses[sess.cursor]

\* the rest of a pass of the for...of loop once the handler call is settled
afterHandler(sess, outcome) ==
    [sess EXCEPT !.operations = @ \o pushedOperations(toolUseOf(sess), outcome.threw),
                 !.toolResults = Append(@, toolResultFor(toolUseOf(sess), outcome)),
                 !.cursor = @ + 1,
                 !.pending = <<>>,
                 !.pc = "dispatch"]

\* the history entry of a settled handler call of run s
SessionRecord(s, toolUse, outcome) ==
    [session |-> s, name |-> toolUse.name, input |-> toolUse.input,
     threw |-> outcome.threw, value |-> outcome.value]

\* the command is given and the modal submitted: handleSubmit up to its return
\* or its await.  A prompt that is blank after trim() raises the Notice 'Please
\* enter a prompt' and nothing else: the modal stays open and no run begins.
\* Else the modal closes and processVaultAgent runs up to its first service call
SubmitAgent ==
    /\ Len(sessions) < MaxSessions
    /\ \E value \in PromptInputs :
       LET prompt == trim(value)
       IN  IF prompt = <<>>
           THEN /\ Cardinality({i \in 1..Len(notices) :
                                     notices[i] = <<"Please enter a prompt">>})
                      < MaxBlankPrompts
                /\ notices' = Append(notices, <<"Please enter a prompt">>)
                /\ UNCHANGED <<entry, sessions, tools, request, callCount>>
           ELSE /\ entry' = "processVaultAgent"
                /\ IF apiKeyMissing(settings)
                   THEN /\ notices' = notices \o <<<<"Claude is working on your vault...">>,
                                                   <<"Error: ">> \o ApiKeyError>>
                        /\ sessions' = Append(sessions,
                              [pc |-> "closed", iterationCount |-> 0, messages |-> <<>>,
                               toolUses |-> <<>>, cursor |-> 0, toolResults |-> <<>>,
                               operations |-> <<>>, pending |-> <<>>])
                        /\ UNCHANGED <<tools, request, callCount>>
                   ELSE \E noteOpen \in BOOLEAN :
                        LET currentNotePath == IF noteOpen THEN pA ELSE Undefined
                            currentNoteContent == IF noteOpen THEN editor ELSE Undefined
                            first == <<[role |-> "user",
                                        content |-> initialMessage(prompt, currentNotePath,
                                                                   currentNoteContent)]>>
                        IN  /\ notices' = Append(notices, <<"Claude is working on your vault...">>)
                            /\ tools' = toolRegistry(settings.enableDeleteFiles)
                            /\ request' = [system |-> IF settings.enableDeleteFiles
                                                      THEN "with delete_file"
                                                      ELSE "without delete_file",
                                           messages |-> first,
                                           tools |-> toolRegistry(settings.enableDeleteFiles)]
                            /\ callCount' = callCount + 1
                            /\ sessions' = Append(sessions,
                                  [pc |-> "awaiting", iterationCount |-> 1, messages |-> first,
                                   toolUses |-> <<>>, cursor |-> 0, toolResults |-> <<>>,
                                   operations |-> <<>>, pending |-> <<>>])
    /\ UNCHANGED <<settings, vault, issued, trace, modals>>
    /\ UNCHANGED singleRunVars
    /\ UNCHANGED pending

\* the service call of a run resolves: the reply is appended; the run is done,
\* returns its log and handleSubmit opens the results modal, or the run goes on
\* to dispatch the tool uses of the reply
SessionReplies ==
    \E s \in DOMAIN sessions :
       /\ sessions[s].pc = "awaiting"
       /\ \E reply \in SessionRepliesTo(callCount, MaxToolUses - issued) :
             LET sess == [sessions[s] EXCEPT !.messages = Append(@, assistantTurn(reply))]
             IN  /\ issued' = issued + Len(toolUsesOf(reply.content))
                 /\ IF agentIsDone(reply)
                    THEN /\ sessions' = [sessions EXCEPT ![s] = [sess EXCEPT !.pc = "closed"]]
                         /\ notices' = IF sess.iterationCount >= maxIterations
                                       THEN Append(notices, MaxIterationsNotice)
                                       ELSE notices
                         /\ modals' = Append(modals, [type |-> "AgentResultsModal",
                                                      operations |-> sess.operations])
                    ELSE /\ sessions' = [sessions EXCEPT ![s] =
                               [sess EXCEPT !.toolUses = toolUsesOf(reply.content),
                                            !.toolResults = <<>>,
                                            !.cursor = 1,
                                            !.pc = "dispatch"]]
                         /\ UNCHANGED <<notices, modals>>
       /\ UNCHANGED <<settings, vault, entry, tools, request, callCount, trace>>
       /\ UNCHANGED singleRunVars
       /\ UNCHANGED pending

\* the service call of a run rejects: the run throws and handleSubmit raises
\* the Notice of its catch block
SessionRejects ==
    \E s \in DOMAIN sessions :
       /\ sessions[s].pc = "awaiting"
       /\ \E error \in ServiceErrors :
             notices' = Append(notices, <<"Error: ">> \o wrapAgentError(error))
       /\ sessions' = [sessions EXCEPT ![s].pc = "closed"]
       /\ UNCHANGED <<settings, vault, entry, tools, request, callCount, issued, trace,
                      modals>>
       /\ UNCHANGED singleRunVars
       /\ UNCHANGED pending

\* the end of a pass of the for...of loop of run s, or its suspension: a handler
\* call that awaits a host call leaves the pass where it is; one that is through
\* is entered in the history and followed by the push and the tool result
sessionGoesOn(s, call) ==
    /\ vault' = call.vault
    /\ IF call.pending # <<>>
       THEN /\ sessions' = [sessions EXCEPT ![s] =
                  [sessions[s] EXCEPT !.pc = "handler", !.pending = call.pending]]
            /\ UNCHANGED trace
       ELSE /\ sessions' = [sessions EXCEPT ![s] = afterHandler(sessions[s], call.outcome)]
            /\ trace' = Append(trace, SessionRecord(s, toolUseOf(sessions[s]), call.outcome))

\* a pass of the for...of loop of a run begins: the switch calls the handler,
\* which runs up to its first await of a host call or, when it comes to none,
\* to its end
SessionDispatch ==
    \E s \in DOMAIN sessions :
       /\ sessions[s].pc = "dispatch"
       /\ sessions[s].cursor <= Len(sessions[s].toolUses)
       /\ \E hostOrder \in OrdersFor(vault, toolUseOf(sessions[s])) :
             sessionGoesOn(s, beginCall(vault, hostOrder, toolUseOf(sessions[s])))
       /\ UNCHANGED <<settings, entry, tools, request, notices, callCount, issued, modals>>
       /\ UNCHANGED singleRunVars
       /\ UNCHANGED pending

\* the host call the handler of a run awaits is back: the handler goes on to its
\* next host call, or it is through and the pass ends
SessionResumes ==
    \E s \in DOMAIN sessions :
       /\ sessions[s].pc = "handler"
       /\ sessionGoesOn(s, resumeCall(vault, sessions[s].pending[1]))
       /\ UNCHANGED <<settings, entry, tools, request, notices, callCount, issued, modals>>
       /\ UNCHANGED singleRunVars
       /\ UNCHANGED pending

\* the for...of loop of a run is through: the tool results are appended as one
\* user turn, and the next round begins with its service call, or the cap is
\* reached and the run returns its log
SessionEndRound ==
    \E s \in DOMAIN sessions :
       /\ sessions[s].pc = "dispatch"
       /\ sessions[s].cursor > Len(sessions[s].toolUses)
       /\ LET sess == [sessions[s] EXCEPT
                         !.messages = Append(@, [role |-> "user",
                                                 content |-> sessions[s].toolResults])]
          IN  IF sess.iterationCount < maxIterations
              THEN /\ sessions' = [sessions EXCEPT ![s] =
                         [sess EXCEPT !.iterationCount = @ + 1, !.pc = "awaiting"]]
                   /\ request' = [system |-> IF settings.enableDeleteFiles
                                             THEN "with delete_file"
                                             ELSE "without delete_file",
                                  messages |-> sess.messages, tools |-> tools]
                   /\ callCount' = callCount + 1
                   /\ UNCHANGED <<notices, modals>>
              ELSE /\ sessions' = [sessions EXCEPT ![s] = [sess EXCEPT !.pc = "closed"]]
                   /\ notices' = Append(notices, MaxIterationsNotice)
                   /\ modals' = Append(modals, [type |-> "AgentResultsModal",
                                                operations |-> sess.operations])
                   /\ UNCHANGED <<request, callCount>>
       /\ UNCHANGED <<settings, vault, entry, tools, issued, trace>>
       /\ UNCHANGED singleRunVars
       /\ UNCHANGED pending

NextSessions ==
    \/ SubmitAgent
    \/ SessionReplies
    \/ SessionRejects
    \/ SessionDispatch
    \/ SessionResumes
    \/ SessionEndRound

SpecSessions == InitSessions /\ [][NextSessions]_vars

\* run s is in progress: processVaultAgent was called and has not returned
InProgress(s) == sessions[s].pc \in {"awaiting", "dispatch", "handler"}

\* C25: at no time are two runs of processVaultAgent in progress.
C25_OneRunAtATime ==
    \A s, t \in DOMAIN sessions : (InProgress(s) /\ InProgress(t)) => s = t

\* C25, the dispatches of two runs interleaved: the first run is inside its
\* create_file, with the folder made and the file not yet, and the second run,
\* begun after it, has written a.md meanwhile
C25_DispatchesInterleaved ==
    /\ Len(sessions) = 2
    /\ sessions[1].pc = "handler"
    /\ sessions[1].pending[1].settled = <<>>
    /\ pN \in vault.folders
    /\ pNC \notin DOMAIN vault.files
    /\ sessions[2].pc = "dispatch"
    /\ Len(trace) = 1
    /\ trace[1].session = 2
    /\ trace[1].name = "write_file"
    /\ ~trace[1].threw
    /\ vault.files[pA] = <<"w">>

\* the path of the handler call that run s is inside
PathOf(s) == toolUseOf(sessions[s]).input.path

\* C26: while a run is between the existence check of a handler and the
\* handler's mutation, no step of another run changes what the path holds.
C26_CheckThenMutateAtomic ==
    [][\A s \in DOMAIN sessions :
          (/\ sessions[s].pc = "handler"
           /\ sessions[s].pending[1].settled = <<>>
           /\ sessions'[s] = sessions[s]) =>
             getAbstractFileByPath(vault', PathOf(s)) = getAbstractFileByPath(vault, PathOf(s))]_vars

\* C26, the race run to its end: both runs were asked to create n/c.md; the
\* first found the path free and made the folder, the second then created the
\* file, and the create call of the first was refused by the host
C26_CreateRaced ==
    /\ Len(trace) = 2
    /\ trace[1].session = 2
    /\ trace[1].name = "create_file"
    /\ trace[1].input.path = pNC
    /\ ~trace[1].threw
    /\ trace[2].session = 1
    /\ trace[2].name = "create_file"
    /\ trace[2].input.path = pNC
    /\ trace[2].threw
    /\ trace[2].value = <<"File already exists.">>
    /\ vault.files[pNC] = <<>>
    /\ optString(trace[2].input, "content") = <<"x">>

(***************************************************************************)
(* Further properties of the tree under the handlers (SpecHandlers)        *)
(***************************************************************************)

\* the path call i of rename_file or delete_file acts on
SubjectPath(i) ==
    IF trace[i].name = "rename_file" THEN trace[i].input.old_path ELSE trace[i].input.path

\* C32: a rename_file or delete_file called with the path of a directory throws
\* "File not found: <path>" and leaves the tree as it was; one call of either
\* takes at most one document away from its path and takes no directory away.
C32_DocumentsOnly ==
    \A i \in 1..Len(trace) :
       (IsCall(i, "rename_file") \/ IsCall(i, "delete_file")) =>
          LET before == trace[i].before
              after == After(i)
          IN  /\ SubjectPath(i) \in before.folders =>
                    /\ trace[i].threw
                    /\ trace[i].value = <<"File not found: ">> \o SubjectPath(i)
                    /\ after = before
              /\ Cardinality(DOMAIN before.files \ DOMAIN after.files) <= 1
              /\ before.folders \subseteq after.folders

\* C32, a directory moved: rename_file was called with the path of the directory
\* d and succeeded; d is gone and its document is now n/b.md
C32_DirectoryMoved ==
    /\ Len(trace) = 1
    /\ IsCall(1, "rename_file")
    /\ trace[1].input = [old_path |-> pD, new_path |-> pN]
    /\ ~trace[1].threw
    /\ trace[1].value = <<"Successfully renamed ">> \o pD \o <<" to ">> \o pN
    /\ pD \notin vault.folders
    /\ pN \in vault.folders
    /\ pDB \notin DOMAIN vault.files
    /\ vault.files[<<"n", "/", "b", ".", "m", "d">>] = <<"X", " ", "b">>

(***************************************************************************)
(* Writing back what was read: a read_file whose result is handed to       *)
(* write_file for the same path (SpecWriteBack)                            *)
(***************************************************************************)

\* write_file(path, content) with the path and the result of the read_file call
\* that came last, up to the await of vault.modify or to the end of the case
WriteBack ==
    /\ trace # <<>>
    /\ Len(trace) <= MaxCalls
    /\ pending = <<>>
    /\ trace[Len(trace)].name = "read_file"
    /\ ~trace[Len(trace)].threw
    /\ LET toolUse == [name |-> "write_file",
                       input |-> [path |-> trace[Len(trace)].input.path,
                                  content |-> trace[Len(trace)].value]]
       IN  caseGoesOn(beginHandler(vault, toolUse,
                                   handleWriteFile(vault, toolUse.input.path,
                                                   toolUse.input.content),
                                   <<>>),
                      toolUse, vault)
    /\ UNCHANGED <<runVars, modalVars>>

NextWriteBack ==
    \/ NextHandlers
    \/ WriteBack

SpecWriteBack == InitHandlers /\ [][NextWriteBack]_vars

\* call i read a document and call i + 1 writes what was read to the same path
IsWriteBack(i) ==
    /\ IsCall(i, "read_file") /\ ~trace[i].threw
    /\ IsCall(i + 1, "write_file")
    /\ trace[i + 1].input.path = trace[i].input.path
    /\ trace[i + 1].input.content = trace[i].value

\* C34 as stated: writing back what was just read leaves the body of the
\* document as it was.
C34_WriteBackNoOp ==
    \A i \in 1..Len(trace) :
       IsWriteBack(i) =>
          After(i + 1).files[trace[i].input.path] = trace[i].before.files[trace[i].input.path]

\* C34 amended: writing back what was just read succeeds and changes nothing but
\* the body of the document, which becomes the body without its first non-blank
\* line when that line is the level-1 heading of the file name without a closing
\* ".md", and stays as it was otherwise.
C34_WriteBackFiltered ==
    \A i \in 1..Len(trace) :
       IsWriteBack(i) =>
          LET path == trace[i].input.path
              body == trace[i].before.files[path]
          IN  /\ trace[i].value = body
              /\ ~trace[i + 1].threw
              /\ SameBut(After(i + 1), trace[i].before, path)
              /\ After(i + 1).files[path] = Filtered(body, WithoutMd(FileName(path)))
              /\ (\A k \in 1..Len(body) : body[k] # "#") => After(i + 1).files[path] = body

\* C34 witness: n/c.md was created with the body "# c\nx", read, and written
\* back: its body is now "x"
C34_Witness ==
    /\ Len(trace) = 3
    /\ IsCall(1, "create_file")
    /\ trace[1].input = [path |-> pNC, content |-> <<"#", " ", "c", "\n", "x">>]
    /\ IsWriteBack(2)
    /\ trace[2].value = <<"#", " ", "c", "\n", "x">>
    /\ vault.files[pNC] = <<"x">>

\* the paths call i names
TargetsOf(i) ==
    IF trace[i].name = "rename_file"
    THEN {trace[i].input.old_path, trace[i].input.new_path}
    ELSE IF "path" \in DOMAIN trace[i].input THEN {trace[i].input.path} ELSE {}

\* C35: a call of read_file, list_files, search_files or get_file_metadata, a
\* dispatch of an unknown tool and every call that throws leave the tree as it
\* was; a write_file that succeeds changes only the body of its document; a
\* create_file that succeeds adds only its document and the directories above
\* it; no call changes the body of a document it does not name.
C35_Frame ==
    \A i \in 1..Len(trace) :
       LET before == trace[i].before
           after == After(i)
       IN  /\ (trace[i].name \in {"read_file", "list_files", "search_files",
                                  "get_file_metadata", "move_file"} \/ trace[i].threw) =>
                 after = before
           /\ (IsCall(i, "write_file") /\ ~trace[i].threw) =>
                 /\ SameBut(after, before, trace[i].input.path)
                 /\ trace[i].input.path \in DOMAIN after.files
           /\ (IsCall(i, "create_file") /\ ~trace[i].threw) =>
                 /\ SameBut(after, [before EXCEPT !.folders = after.folders],
                            trace[i].input.path)
                 /\ after.folders = before.folders \cup Ancestors(trace[i].input.path)
           /\ \A q \in (DOMAIN before.files \cap DOMAIN after.files) \ TargetsOf(i) :
                 after.files[q] = before.files[q]

\* C35, a failed call that changed the tree: create_file was called with the
\* path "n/"; the directory n was made, the create call of the host was refused
\* and the handler threw
C35_FailedCreateLeftFolder ==
    /\ Len(trace) = 1
    /\ IsCall(1, "create_file")
    /\ trace[1].input.path = pNSlash
    /\ trace[1].threw
    /\ pN \notin trace[1].before.folders
    /\ vault.folders = trace[1].before.folders \cup {pN}
    /\ DOMAIN vault.files = DOMAIN trace[1].before.files

\* a rename_file that changed the body of a document it does not name: d/b.md
\* was written with a link to a.md, and the rename of a.md to dd.md rewrote it
LinkRewritten ==
    /\ Len(trace) = 2
    /\ IsCall(1, "write_file") /\ trace[1].input = [path |-> pDB, content |-> linkToA]
    /\ IsCall(2, "rename_file") /\ trace[2].input = [old_path |-> pA, new_path |-> pDD]
    /\ ~trace[2].threw
    /\ trace[2].before.files[pDB] = linkToA
    /\ vault.files[pDB] = <<"[", "[", "d", "d", "]", "]">>

\* the number a serialised number stands for (the numbers of the model are small)
NumberOf(token) == CHOOSE n \in 0..250 : ToString(n) = token

\* the number of line excerpts of the result entry whose "matches" key is at k
ExcerptsAt(text, k) ==
    LET later == {j \in PositionsOf(text, "{\"path\":") : j > k}
        next == IF later = {} THEN Len(text) + 1
                ELSE CHOOSE j \in later : \A l \in later : j <= l
    IN  Cardinality({j \in PositionsOf(text, "{\"line\":") : k < j /\ j < next})

\* C39: every entry of a search_files result has between 1 and 5 line excerpts,
\* each of at most 200 characters; files_with_matches is the number of entries
\* and is at most total_files_searched.
C39_SearchEntries ==
    \A i \in 1..Len(trace) :
       IsCall(i, "search_files") =>
          LET text == trace[i].value
              found == Cardinality(PositionsOf(text, "{\"path\":"))
          IN  /\ \A k \in PositionsOf(text, ",\"matches\":") :
                    ExcerptsAt(text, k) >= 1 /\ ExcerptsAt(text, k) <= 5
              /\ \A k \in PositionsOf(text, ",\"content\":") :
                    Len(StringAt(text, k + 1)) <= 200
              /\ NumberOf(TokenAfter(text, ",\"files_with_matches\":")) = found
              /\ found <= NumberOf(TokenAfter(text, ",\"total_files_searched\":"))

\* C39, an entry without excerpt: d/b.md was written with "# a\nx" and the
\* search for "a x" reports it with an empty list of matches
C39_EntryWithoutExcerpt ==
    /\ Len(trace) = 2
    /\ IsCall(1, "write_file")
    /\ trace[1].input = [path |-> pDB, content |-> <<"#", " ", "a", "\n", "x">>]
    /\ IsCall(2, "search_files")
    /\ trace[2].input = [query |-> <<"a", " ", "x">>]
    /\ trace[2].before.files[pDB] = <<"#", " ", "a", "\n", "x">>
    /\ trace[2].value = <<"{\"results\":", "[", "{\"path\":">> \o jsonString(pDB)
                        \o <<",\"matches\":", "[", "]", "}", "]",
                             ",\"total_files_searched\":", "2",
                             ",\"files_with_matches\":", "1",
                             ",\"truncated\":", "false", "}">>

(***************************************************************************)
(* Further properties of the agent loop (Spec)                             *)
(***************************************************************************)

\* the vault after the first k of the tool uses were carried out one after the
\* other, beginning with vault v
RECURSIVE VaultAfter(_, _, _)
VaultAfter(v, uses, k) ==
    IF k = 0 THEN v
    ELSE LET before == VaultAfter(v, uses, k - 1)
         IN  callHandler(before, CHOOSE hostOrder \in HostOrders(before) : TRUE, uses[k]).vault

\* every tool use issued so far belongs to the reply being dispatched, so that
\* the round began on the initial vault
FirstToolRound == AgentRun /\ pc = "dispatch" /\ issued = Len(toolUses)

\* C33: while a reply is dispatched, the tool results so far are those of the
\* first tool uses of the reply, in reply order, one result per tool use; each
\* handler call ran on the vault that the calls before it left, and the vault is
\* what they left (while a handler awaits a host call, the vault it began on is
\* what they left).  A create_file followed by a read_file of the same path in
\* one reply reads the content just created, and a second create_file of the
\* same path fails with "File already exists".
C33_DispatchInReplyOrder ==
    /\ (AgentRun /\ pc = "dispatch") =>
          /\ Len(toolResults) = cursor - 1
          /\ cursor <= Len(toolUses) + 1
          /\ \A k \in 1..Len(toolResults) : toolResults[k].tool_use_id = toolUses[k].id
    /\ FirstToolRound =>
          /\ pending = <<>> => vault = VaultAfter(InitialVault, toolUses, Len(toolResults))
          /\ pending # <<>> =>
                /\ pending[1].toolUse = toolUses[cursor]
                /\ pending[1].before = VaultAfter(InitialVault, toolUses, Len(toolResults))
          /\ \A k \in 1..Len(toolResults) :
                LET before == VaultAfter(InitialVault, toolUses, k - 1)
                IN  \E hostOrder \in OrdersFor(before, toolUses[k]) :
                       toolResults[k] =
                          toolResultFor(toolUses[k],
                                        callHandler(before, hostOrder, toolUses[k]))
    /\ (FirstToolRound /\ Len(toolResults) = 2
        /\ toolUses[1].name = "create_file" /\ toolUses[1].input.path = pMissing) =>
          /\ "is_error" \notin DOMAIN toolResults[1]
          /\ (toolUses[2].name = "read_file" /\ toolUses[2].input.path = pMissing) =>
                /\ "is_error" \notin DOMAIN toolResults[2]
                /\ toolResults[2].content = toolUses[1].input.content
          /\ (toolUses[2].name = "create_file" /\ toolUses[2].input.path = pMissing) =>
                /\ "is_error" \in DOMAIN toolResults[2]
                /\ toolResults[2].content =
                      <<"Error: ", "File already exists: ">> \o pMissing
                      \o <<". Use write_file to update it.">>

\* C33 witness: the reply asked for create_file missing.md "x" and then for
\* read_file missing.md; both were carried out and the read returned "x"
C33_Witness ==
    /\ FirstToolRound
    /\ cursor = 3
    /\ toolUses[1].name = "create_file" /\ toolUses[1].input.path = pMissing
    /\ toolUses[2].name = "read_file" /\ toolUses[2].input.path = pMissing
    /\ toolResults[2].content = <<"x">>
    /\ "is_error" \notin DOMAIN toolResults[2]

\* the invocations that change documents
MutatingKinds == {"write_file", "create_file", "rename_file", "delete_file"}

\* C31: when a run has ended, by returning or by throwing, the log delivered to
\* the caller holds the record of every write, create, rename and delete that
\* the run carried out.
C31_AuditComplete ==
    Ended =>
       \A i \in 1..Len(trace) :
          (trace[i].name \in MutatingKinds /\ ~trace[i].threw) =>
             \E k \in 1..Len(returned) : returned[k] = RecordOf(trace[i])

\* C31, a failed run with an unreported mutation: the first round created
\* missing.md, the service call of the second round was rejected, and the run
\* threw without delivering its log
C31_FailedRunLostLog ==
    /\ AgentRun
    /\ pc = "threw"
    /\ serviceError # <<>>
    /\ iterationCount = 2
    /\ Len(trace) = 1
    /\ trace[1].name = "create_file" /\ trace[1].input.path = pMissing /\ ~trace[1].threw
    /\ pMissing \in DOMAIN vault.files
    /\ operations = <<[type |-> "create", path |-> pMissing]>>
    /\ returned = <<>>

(***************************************************************************)
(* Further properties of single-document mode (SpecSingleNote,             *)
(* SpecSingleNoteEdited)                                                   *)
(***************************************************************************)

\* the active view that handleSubmit found when the response was there
ViewFound == trace[Len(trace)].value

\* handleSubmit looked for the active view
ViewLookedUp == Submitted /\ trace[Len(trace)].name = "getActiveViewOfType"

\* C36: when the response arrives and the active view is not the view the modal
\* was opened from (another view, or none), handleSubmit raises the Notice "Note
\* context changed...", leaves the editor as it was and changes no document; the
\* editor is given the response only when the active view is that view.
C36_AppliedToItsViewOnly ==
    /\ []((ViewLookedUp /\ ViewFound # "this.view") =>
            /\ pc = "closed"
            /\ editor = Captured
            /\ notices[Len(notices)] =
                  <<"Note context changed. AI response not applied. Check console for the response.">>)
    /\ []((Submitted /\ editor # Captured) => (ViewLookedUp /\ ViewFound = "this.view"))
    /\ [](Submitted => vault = InitialVault)
    /\ [][(Submitted /\ pc = "returned" /\ ~startsWith(returned, ErrorMarker)) =>
            /\ ViewLookedUp'
            /\ Len(trace') = Len(trace) + 1]_vars

\* C36 witness: the response "ok" arrived while another view was active; the
\* editor holds what it held and the Notice was raised
C36_Witness ==
    /\ ViewLookedUp
    /\ ViewFound = "another view"
    /\ pc = "closed"
    /\ returned = <<"o", "k">>
    /\ editor = <<"x">>
    /\ Len(notices) = 2

\* the user types into the note while the service call is in flight: the modal
\* is closed by then and the editor is the user's again
UserEdits ==
    /\ entry = "processWithAI"
    /\ pc = "single_awaiting"
    /\ editor = Captured
    /\ editor' = editor \o <<"u">>
    /\ trace' = Append(trace, [name |-> "userEdit", value |-> editor \o <<"u">>])
    /\ UNCHANGED <<settings, vault, entry, pc, operations, tools, messages, iterationCount,
                   continueLoop, message, toolUses, toolResults, cursor, request, notices,
                   returned, thrown, callCount, serviceError, quiet, issued, modals,
                   sessions>>
    /\ UNCHANGED pending

NextSingleNoteEdited ==
    \/ NextSingleNote
    \/ UserEdits

SpecSingleNoteEdited == InitSingleNote /\ [][NextSingleNoteEdited]_vars

\* C37: when handleSubmit replaces the text of the editor, the text it replaces
\* is the text that was captured at the submission and sent to the service.
C37_NoEditLost ==
    [][(Submitted /\ pc = "returned" /\ editor' # editor) => editor = Captured]_vars

\* C37, an edit lost: the user typed "u" after "x" while the call was in flight,
\* the response "ok" arrived with the view still active and replaced "xu"
C37_EditOverwritten ==
    /\ Submitted
    /\ pc = "closed"
    /\ Captured = <<"x">>
    /\ Len(trace) = 3
    /\ trace[2] = [name |-> "userEdit", value |-> <<"x", "u">>]
    /\ trace[3] = [name |-> "getActiveViewOfType", value |-> "this.view"]
    /\ returned = <<"o", "k">>
    /\ editor = <<"o", "k">>

(***************************************************************************)
(* The agent run with the settings tab at hand (SpecSettings)              *)
(***************************************************************************)

\* The handlers of the settings tab run when no code of the plugin is on the
\* stack: before a call, after it has ended, and while it awaits the service or
\* a host call.  From the start of processVaultAgent to the first service
\* call, and from the end of a round to the next service call, nothing is
\* awaited.

\* AICopilotSettingTab, text 'Anthropic API Key': onChange stores the new value
\* in the settings of the plugin
ChangeApiKey ==
    /\ \/ pc \in {"idle", "awaiting", "single_awaiting", "returned", "threw"}
       \/ pending # <<>>
    /\ \E value \in {<<>>, <<"sk-ant">>} \ {settings.anthropicApiKey} :
          settings' = [settings EXCEPT !.anthropicApiKey = value]
    /\ UNCHANGED <<vault, entry, pc, operations, tools, messages, iterationCount,
                   continueLoop, message, toolUses, toolResults, cursor, request, notices,
                   returned, thrown, callCount, serviceError, quiet, issued, trace>>
    /\ UNCHANGED modalVars
    /\ UNCHANGED pending

\* AICopilotSettingTab, toggle 'Enable File Deletion': onChange stores the new
\* value in the settings of the plugin
ToggleDeleteFiles ==
    /\ \/ pc \in {"idle", "awaiting", "single_awaiting", "returned", "threw"}
       \/ pending # <<>>
    /\ \E value \in BOOLEAN \ {settings.enableDeleteFiles} :
          settings' = [settings EXCEPT !.enableDeleteFiles = value]
    /\ UNCHANGED <<vault, entry, pc, operations, tools, messages, iterationCount,
                   continueLoop, message, toolUses, toolResults, cursor, request, notices,
                   returned, thrown, callCount, serviceError, quiet, issued, trace>>
    /\ UNCHANGED modalVars
    /\ UNCHANGED pending

NextSettings ==
    \/ Next
    \/ ChangeApiKey
    \/ ToggleDeleteFiles

SpecSettings == Init /\ [][NextSettings]_vars

\* the request offers delete_file in its tool registry
OffersDelete(req) == \E k \in 1..Len(req.tools) : req.tools[k] = "delete_file"

\* C38: in every round of a run the system instructions submitted say that
\* delete_file is available exactly when the tool registry submitted holds it,
\* and the registry is the same in every round of the run.
C38_DeleteConsistent ==
    (AgentRun /\ request # NoRequest) =>
       /\ (request.system = "with delete_file") <=> OffersDelete(request)
       /\ request.tools = tools

\* C38, the two disagree: the run began with file deletion disabled, the
\* setting was switched on during the first round, and the request of the second
\* round has the instructions for delete_file and a registry without it
C38_PromptAndRegistryDisagree ==
    /\ AgentRun
    /\ pc = "awaiting"
    /\ iterationCount = 2
    /\ settings.enableDeleteFiles
    /\ request.system = "with delete_file"
    /\ ~OffersDelete(request)
    /\ request.tools = toolRegistry(FALSE)

====
